---- MODULE Spec2Model ----
(***************************************************************************)
(* Event-sourced order book engine of market-data-engine:                  *)
(*   domain/aggregates/OrderBook          (OrderBook::apply and friends)   *)
(*   services/OrderBookService            (on_event, maybe_snapshot)       *)
(*   repositories/InMemoryOrderBookRepository                              *)
(*   repositories/parquet/ParquetOrderBookRepository                       *)
(*                                                                         *)
(* Conventions.  A Price (a double in [0,1]) is written as an integer      *)
(* number of thousandths, a Quantity as an integer number of units; the    *)
(* code only compares and copies them on the paths modelled here.  A       *)
(* std::string token id is a sequence of digits so that substr() can be    *)
(* computed.  A std::optional is a sequence of length 0 or 1.  A std::map  *)
(* is a function whose DOMAIN is the set of keys present.                  *)
(***************************************************************************)
EXTENDS Integers, Sequences, FiniteSets, TLC

\* ------------------------------------------------------------------------
\* Bounds of the exploration
\* ------------------------------------------------------------------------
MaxEvents == 3
MaxAppends == 2
MaxInterval == 2
MaxBufferSize == 2
MaxRestarts == 1
MaxStores == 2
MaxFailures == 1
MaxWriteErrors == 1
MaxTracked == 2         \* largest max_tracked_markets
MaxFetch == 2           \* most token ids in one fetch_top_token_ids result
MaxPolls == 3           \* poll() calls in a behaviour
MaxSubscribes == 2      \* subscribe() calls in a behaviour
MaxOpens == 2           \* connections opened in a behaviour

\* ------------------------------------------------------------------------
\* Program constants
\* ------------------------------------------------------------------------
DefaultTickSize == 10
TokenPrefixLen == 8
TokenHashLen == 16
FlushSeconds == 30
TickSeconds == 30

EmptyMap == [x \in {} |-> x]

Min2(a, b) == IF a <= b THEN a ELSE b

\* ------------------------------------------------------------------------
\* Value domain
\* ------------------------------------------------------------------------
BUY == "BUY"

SELL == "SELL"

MarketAsset(condition_id, token_id) ==
    [condition_id |-> condition_id, token_id |-> token_id]

PriceLevel(price, size) == [price |-> price, size |-> size]

PriceLevelDelta(asset_id, price, new_size, side, best_bid, best_ask) ==
    [asset_id |-> asset_id, price |-> price, new_size |-> new_size,
     side |-> side, best_bid |-> best_bid, best_ask |-> best_ask]

\* The four event kinds; every event carries the OrderBookEvent header.
BookSnapshot(asset, timestamp, sequence_number, bids, asks, hash) ==
    [kind |-> "BookSnapshot", asset |-> asset, timestamp |-> timestamp,
     sequence_number |-> sequence_number,
     bids |-> bids, asks |-> asks, hash |-> hash]

BookDelta(asset, timestamp, sequence_number, changes) ==
    [kind |-> "BookDelta", asset |-> asset, timestamp |-> timestamp,
     sequence_number |-> sequence_number, changes |-> changes]

TradeEvent(asset, timestamp, sequence_number, price, size, side, fee_rate_bps) ==
    [kind |-> "TradeEvent", asset |-> asset, timestamp |-> timestamp,
     sequence_number |-> sequence_number,
     price |-> price, size |-> size, side |-> side,
     fee_rate_bps |-> fee_rate_bps]

TickSizeChange(asset, timestamp, sequence_number, old_tick_size, new_tick_size) ==
    [kind |-> "TickSizeChange", asset |-> asset, timestamp |-> timestamp,
     sequence_number |-> sequence_number,
     old_tick_size |-> old_tick_size, new_tick_size |-> new_tick_size]

\* ------------------------------------------------------------------------
\* OrderBook aggregate
\* ------------------------------------------------------------------------
OrderBook(asset, bids, asks, latest_trade, tick_size, timestamp, last_sequence_number, book_hash) ==
    [asset |-> asset, bids |-> bids, asks |-> asks,
     latest_trade |-> latest_trade, tick_size |-> tick_size,
     timestamp |-> timestamp, last_sequence_number |-> last_sequence_number,
     book_hash |-> book_hash]

empty(asset) == OrderBook(asset, <<>>, <<>>, <<>>, DefaultTickSize, 0, 0, "")

\* std::sort with the comparator key[i] < key[j].  For the short vectors
\* handled here the library sorts by insertion, which keeps equal keys in
\* their original order.
SortByKey(s, key) ==
    LET n == Len(s)
        pos(i) == 1 + Cardinality({j \in 1..n :
                        key[j] < key[i] \/ (key[j] = key[i] /\ j < i)})
    IN [p \in 1..n |-> s[CHOOSE i \in 1..n : pos(i) = p]]

\* Faulty variant of SortBids: the comparator of the asks
SortBids_Ascending(levels) ==
    SortByKey(levels, [i \in 1..Len(levels) |-> levels[i].price])

\* bids: a.price() > b.price()
SortBids(levels) ==
    SortByKey(levels, [i \in 1..Len(levels) |-> 0 - levels[i].price])

\* asks: a.price() < b.price()
SortAsks(levels) ==
    SortByKey(levels, [i \in 1..Len(levels) |-> levels[i].price])

\* Faulty variant of apply_BookSnapshot: the book is rebuilt from scratch
apply_BookSnapshot_DropsTrade(book, event) ==
    OrderBook(book.asset, SortBids(event.bids), SortAsks(event.asks),
              <<>>, DefaultTickSize,
              event.timestamp, event.sequence_number, event.hash)

apply_BookSnapshot(book, event) ==
    OrderBook(book.asset, SortBids(event.bids), SortAsks(event.asks),
              book.latest_trade, book.tick_size,
              event.timestamp, event.sequence_number, event.hash)

\* comp is std::greater for bids (descending = TRUE), std::less for asks.
Comp(descending, a, b) == IF descending THEN a > b ELSE a < b

InsertAt(s, i, x) == SubSeq(s, 1, i - 1) \o <<x>> \o SubSeq(s, i, Len(s))

RemoveAt(s, i) == SubSeq(s, 1, i - 1) \o SubSeq(s, i + 1, Len(s))

\* Faulty variant of update_levels: a new level is pushed at the back
update_levels_PushBack(levels, price, new_size, descending) ==
    LET n == Len(levels)
        found == {i \in 1..n : levels[i].price = price}
        it == IF found = {} THEN 0
              ELSE CHOOSE i \in found : \A j \in found : i <= j
    IN IF new_size = 0
       THEN (IF it # 0 THEN RemoveAt(levels, it) ELSE levels)
       ELSE IF it # 0
            THEN [levels EXCEPT ![it] = PriceLevel(price, new_size)]
            ELSE Append(levels, PriceLevel(price, new_size))

update_levels(levels, price, new_size, descending) ==
    LET n == Len(levels)
        found == {i \in 1..n : levels[i].price = price}
        it == IF found = {} THEN 0
              ELSE CHOOSE i \in found : \A j \in found : i <= j
        \* std::lower_bound: first position whose price is not before `price`
        notBefore == {i \in 1..n : ~Comp(descending, levels[i].price, price)}
        pos == IF notBefore = {} THEN n + 1
               ELSE CHOOSE i \in notBefore : \A j \in notBefore : i <= j
    IN IF new_size = 0
       THEN (IF it # 0 THEN RemoveAt(levels, it) ELSE levels)
       ELSE IF it # 0
            THEN [levels EXCEPT ![it] = PriceLevel(price, new_size)]
            ELSE InsertAt(levels, pos, PriceLevel(price, new_size))

RECURSIVE ApplyChanges(_, _, _)
\* The loop over event.changes; sides is <<bids, asks>>.
ApplyChanges(sides, changes, i) ==
    IF i > Len(changes) THEN sides
    ELSE LET change == changes[i]
         IN ApplyChanges(
              IF change.side = BUY
              THEN <<update_levels(sides[1], change.price, change.new_size, TRUE),
                     sides[2]>>
              ELSE <<sides[1],
                     update_levels(sides[2], change.price, change.new_size, FALSE)>>,
              changes, i + 1)

apply_BookDelta(book, event) ==
    LET sides == ApplyChanges(<<book.bids, book.asks>>, event.changes, 1)
    IN OrderBook(book.asset, sides[1], sides[2],
                 book.latest_trade, book.tick_size,
                 event.timestamp, event.sequence_number, book.book_hash)

\* Faulty variant of apply_TradeEvent: the book keeps its sequence number
apply_TradeEvent_KeepsSequence(book, event) ==
    OrderBook(book.asset, book.bids, book.asks,
              <<event>>, book.tick_size,
              event.timestamp, book.last_sequence_number, book.book_hash)

apply_TradeEvent(book, event) ==
    OrderBook(book.asset, book.bids, book.asks,
              <<event>>, book.tick_size,
              event.timestamp, event.sequence_number, book.book_hash)

\* Faulty variant of apply_TickSizeChange: the latest trade is forgotten
apply_TickSizeChange_DropsTrade(book, event) ==
    OrderBook(book.asset, book.bids, book.asks,
              <<>>, event.new_tick_size,
              event.timestamp, event.sequence_number, book.book_hash)

apply_TickSizeChange(book, event) ==
    OrderBook(book.asset, book.bids, book.asks,
              book.latest_trade, event.new_tick_size,
              event.timestamp, event.sequence_number, book.book_hash)

\* Variant dispatch
apply(book, event) ==
    CASE event.kind = "BookSnapshot"   -> apply_BookSnapshot(book, event)
      [] event.kind = "BookDelta"      -> apply_BookDelta(book, event)
      [] event.kind = "TradeEvent"     -> apply_TradeEvent(book, event)
      [] event.kind = "TickSizeChange" -> apply_TickSizeChange(book, event)

\* Queries: a thrown std::runtime_error is the result [ok |-> FALSE]
get_best_bid(book) ==
    IF book.bids = <<>> THEN [ok |-> FALSE, value |-> 0]
    ELSE [ok |-> TRUE, value |-> Head(book.bids).price]

get_best_ask(book) ==
    IF book.asks = <<>> THEN [ok |-> FALSE, value |-> 0]
    ELSE [ok |-> TRUE, value |-> Head(book.asks).price]

RECURSIVE FoldApply(_, _)
\* book.apply(e1).apply(e2)... over a list of events
FoldApply(book, events) ==
    IF events = <<>> THEN book
    ELSE FoldApply(apply(book, Head(events)), Tail(events))

\* ------------------------------------------------------------------------
\* State
\* ------------------------------------------------------------------------
VARIABLES
    \* OrderBookService
    next_sequence_number_,  \* uint64_t, starts at 1
    current_books_,         \* std::map<MarketAsset, OrderBook>
    snapshot_interval_,     \* uint64_t
    repository_,            \* which IOrderBookRepository the service is bound to
    \* InMemoryOrderBookRepository
    events_,                \* std::vector<OrderBookEventVariant>
    snapshots_,             \* std::map<MarketAsset, OrderBook>
    \* ParquetOrderBookRepository
    snapshot_buffer_,
    delta_buffer_,
    trade_buffer_,
    tick_size_buffer_,
    min_seq_in_buffer_,
    max_seq_in_buffer_,
    write_buffer_size,      \* settings_.write_buffer_size
    elapsed,                \* seconds on the steady clock since last_flush_time_
    event_files,            \* fs_ below events/: path -> rows of the file
    snapshot_files,         \* fs_ below snapshots/: path -> the single row
    \* History kept for the properties (not program state)
    appended,               \* every event handed to append_event, in call order
    snapshot_calls,         \* every book handed to store_snapshot, in call order
    restarts,               \* number of OrderBookService constructions after the first
    prev_books,             \* the projection the previous service instance held
    failed,                 \* asset and number of every event whose append_event call threw
    write_errors,           \* number of flushes in which a file write reported an error
    \* Threads using one ParquetOrderBookRepository
    mutex_,                 \* std::mutex: "free" or the thread that holds it
    writer,                 \* the thread inside append_event: position, event
    reader,                 \* the thread inside get_events_since: position, locals
    \* The driver program
    driver,                 \* position of the main thread in main()
    feed,                   \* the websocket thread of the PolymarketClient
    display,                \* what the main thread read in its last loop iteration
    \* MarketDiscovery
    tracked_ids_,           \* std::set<std::string>
    max_tracked_markets,    \* discovery_.max_tracked_markets
    discovery_mutex_,       \* MarketDiscovery::mutex_: the thread that holds it, 0 if free
    poller,                 \* per thread inside poll(): position, locals, result
    polls,                  \* number of poll() calls made
    reported,               \* per token id, how often a callback was given it (history)
    \* PolymarketClient
    token_ids_,             \* std::vector<std::string>
    connected_,             \* std::atomic<bool>
    caller,                 \* the thread inside subscribe(): position, token id
    socket,                 \* the websocket thread inside on_message: position
    opens,                  \* number of Open messages so far (history)
    sent                    \* every subscription message handed to ws_.send (history)

serviceVars == <<next_sequence_number_, current_books_, snapshot_interval_, repository_>>

memoryEventVars == <<events_>>

memorySnapshotVars == <<snapshots_>>

parquetEventVars == <<snapshot_buffer_, delta_buffer_, trade_buffer_, tick_size_buffer_,
                      min_seq_in_buffer_, max_seq_in_buffer_, elapsed, event_files>>

parquetSnapshotVars == <<snapshot_files>>

historyVars == <<appended, snapshot_calls, restarts, prev_books, failed, write_errors>>

lockVars == <<mutex_, writer, reader>>

driverVars == <<driver, feed, display>>

discoveryVars == <<tracked_ids_, max_tracked_markets, discovery_mutex_, poller, polls,
                   reported>>

clientVars == <<token_ids_, connected_, caller, socket, opens, sent>>

componentVars == <<lockVars, driverVars, discoveryVars, clientVars>>

vars == <<serviceVars, memoryEventVars, memorySnapshotVars, parquetEventVars,
          parquetSnapshotVars, write_buffer_size, historyVars, componentVars>>

\* ------------------------------------------------------------------------
\* InMemoryOrderBookRepository
\* ------------------------------------------------------------------------
InMemory_append_event(event) == events_' = Append(events_, event)

InMemory_get_events_since(asset, sequence_number) ==
    SelectSeq(events_, LAMBDA e : e.asset = asset /\ e.sequence_number > sequence_number)

InMemory_store_snapshot(book) == snapshots_' = (book.asset :> book) @@ snapshots_

InMemory_get_latest_snapshot(asset) ==
    IF asset \in DOMAIN snapshots_ THEN <<snapshots_[asset]>> ELSE <<>>

\* ------------------------------------------------------------------------
\* ParquetOrderBookRepository: path helpers
\* ------------------------------------------------------------------------
token_prefix(token_id) == SubSeq(token_id, 1, Min2(TokenPrefixLen, Len(token_id)))

token_hash(token_id) == SubSeq(token_id, 1, Min2(TokenHashLen, Len(token_id)))

\* gmtime of timestamp_ms / 1000: the day is written as its number since the
\* epoch (the %Y-%m-%d rendering is one-to-one with it), the hour as 0..23.
date_string(timestamp_ms) == (timestamp_ms \div 1000) \div 86400

hour_string(timestamp_ms) == ((timestamp_ms \div 1000) \div 3600) % 24

\* "events/" + event_type + "/" + token_prefix(token_id)
events_dir(event_type, token_id) ==
    [event_type |-> event_type, token_prefix |-> token_prefix(token_id)]

\* "snapshots/" + token_hash(token_id) + ".parquet"
snapshot_path(token_id) == token_hash(token_id)

\* dir + "/" + date + "/" + event_type_HH_seqstart_seqend.parquet, kept as its
\* components
EventFilePath(dir, date, hour, seq_start, seq_end) ==
    [event_type |-> dir.event_type, token_prefix |-> dir.token_prefix,
     date |-> date, hour |-> hour, seq_start |-> seq_start, seq_end |-> seq_end]

\* static_cast<uint8_t>(Side) and back
SideToU8(side) == IF side = BUY THEN 0 ELSE 1

SideFromU8(u) == IF u = 0 THEN BUY ELSE SELL

Column(s, Op(_)) == [i \in 1..Len(s) |-> Op(s[i])]

\* ------------------------------------------------------------------------
\* ParquetOrderBookRepository: rows written per event type
\* ------------------------------------------------------------------------
write_book_snapshots(events) ==
    [i \in 1..Len(events) |->
        LET snap == events[i]
        IN [condition_id |-> snap.asset.condition_id,
            token_id |-> snap.asset.token_id,
            timestamp_ms |-> snap.timestamp,
            sequence_number |-> snap.sequence_number,
            hash |-> snap.hash,
            bid_prices |-> Column(snap.bids, LAMBDA l : l.price),
            bid_sizes |-> Column(snap.bids, LAMBDA l : l.size),
            ask_prices |-> Column(snap.asks, LAMBDA l : l.price),
            ask_sizes |-> Column(snap.asks, LAMBDA l : l.size)]]

write_book_deltas(events) ==
    [i \in 1..Len(events) |->
        LET delta == events[i]
        IN [condition_id |-> delta.asset.condition_id,
            token_id |-> delta.asset.token_id,
            timestamp_ms |-> delta.timestamp,
            sequence_number |-> delta.sequence_number,
            change_asset_ids |-> Column(delta.changes, LAMBDA c : c.asset_id),
            change_prices |-> Column(delta.changes, LAMBDA c : c.price),
            change_new_sizes |-> Column(delta.changes, LAMBDA c : c.new_size),
            change_sides |-> Column(delta.changes, LAMBDA c : SideToU8(c.side)),
            change_best_bids |-> Column(delta.changes, LAMBDA c : c.best_bid),
            change_best_asks |-> Column(delta.changes, LAMBDA c : c.best_ask)]]

write_trade_events(events) ==
    [i \in 1..Len(events) |->
        LET trade == events[i]
        IN [condition_id |-> trade.asset.condition_id,
            token_id |-> trade.asset.token_id,
            timestamp_ms |-> trade.timestamp,
            sequence_number |-> trade.sequence_number,
            price |-> trade.price,
            size |-> trade.size,
            side |-> SideToU8(trade.side),
            fee_rate_bps |-> trade.fee_rate_bps]]

write_tick_size_changes(events) ==
    [i \in 1..Len(events) |->
        LET tick == events[i]
        IN [condition_id |-> tick.asset.condition_id,
            token_id |-> tick.asset.token_id,
            timestamp_ms |-> tick.timestamp,
            sequence_number |-> tick.sequence_number,
            old_tick_size |-> tick.old_tick_size,
            new_tick_size |-> tick.new_tick_size]]

\* Faulty variant of flush_buffer: the file name carries no sequence numbers
flush_buffer_HourOnly(files, event_type, events) ==
    IF events = <<>> THEN files
    ELSE LET first_asset == events[1].asset
             first_ts == events[1].timestamp
             dir == events_dir(event_type, first_asset.token_id)
             path == EventFilePath(dir, date_string(first_ts), hour_string(first_ts), 0, 0)
             rows == CASE event_type = "book_snapshot" -> write_book_snapshots(events)
                       [] event_type = "book_delta" -> write_book_deltas(events)
                       [] event_type = "trade_event" -> write_trade_events(events)
                       [] event_type = "tick_size_change" -> write_tick_size_changes(events)
         IN (path :> rows) @@ files

\* Writes one buffer to the file named after its first and last event;
\* returns the filesystem after the write (an existing file is replaced).
flush_buffer(files, event_type, events) ==
    IF events = <<>> THEN files
    ELSE LET first_asset == events[1].asset
             first_ts == events[1].timestamp
             seq_start == events[1].sequence_number
             seq_end == events[Len(events)].sequence_number
             dir == events_dir(event_type, first_asset.token_id)
             path == EventFilePath(dir, date_string(first_ts), hour_string(first_ts),
                                   seq_start, seq_end)
             rows == CASE event_type = "book_snapshot" -> write_book_snapshots(events)
                       [] event_type = "book_delta" -> write_book_deltas(events)
                       [] event_type = "trade_event" -> write_trade_events(events)
                       [] event_type = "tick_size_change" -> write_tick_size_changes(events)
         IN (path :> rows) @@ files

\* flush(): the filesystem after every non-empty buffer was written;
\* bufs is <<snapshot, delta, trade, tick_size>>
flush(files, bufs) ==
    LET f1 == flush_buffer(files, "book_snapshot", bufs[1])
        f2 == flush_buffer(f1, "book_delta", bufs[2])
        f3 == flush_buffer(f2, "trade_event", bufs[3])
    IN flush_buffer(f3, "tick_size_change", bufs[4])

\* ------------------------------------------------------------------------
\* ParquetOrderBookRepository: read path
\* ------------------------------------------------------------------------
Levels(prices, sizes) == [j \in 1..Len(prices) |-> PriceLevel(prices[j], sizes[j])]

\* Rebuilds the event variant of a row; the kind comes from the directory
\* the file was found in.
EventFromRow(event_type, row) ==
    LET evt_asset == MarketAsset(row.condition_id, row.token_id)
        ts == row.timestamp_ms
        seq == row.sequence_number
    IN CASE event_type = "book_snapshot" ->
              BookSnapshot(evt_asset, ts, seq,
                           Levels(row.bid_prices, row.bid_sizes),
                           Levels(row.ask_prices, row.ask_sizes), row.hash)
         [] event_type = "book_delta" ->
              BookDelta(evt_asset, ts, seq,
                  [j \in 1..Len(row.change_asset_ids) |->
                      PriceLevelDelta(row.change_asset_ids[j], row.change_prices[j],
                                      row.change_new_sizes[j],
                                      SideFromU8(row.change_sides[j]),
                                      row.change_best_bids[j], row.change_best_asks[j])])
         [] event_type = "trade_event" ->
              TradeEvent(evt_asset, ts, seq, row.price, row.size,
                         SideFromU8(row.side), row.fee_rate_bps)
         [] event_type = "tick_size_change" ->
              TickSizeChange(evt_asset, ts, seq, row.old_tick_size, row.new_tick_size)

\* Faulty variant of RowMatches: the row's condition_id is not compared
RowMatches_TokenOnly(row, asset, min_sequence) ==
    /\ ~(row.sequence_number <= min_sequence)
    /\ ~(row.token_id # asset.token_id)

\* The per-row filter of read_events_from_directory
RowMatches(row, asset, min_sequence) ==
    /\ ~(row.sequence_number <= min_sequence)
    /\ ~(row.token_id # asset.token_id \/ row.condition_id # asset.condition_id)

\* Faulty variant of SkipFile: the test is made on seq_start
SkipFile_BySeqStart(path, min_sequence) == path.seq_start <= min_sequence

\* The filename test: seq_end parsed from the name, file skipped when it
\* cannot hold anything newer than min_sequence
SkipFile(path, min_sequence) == path.seq_end <= min_sequence

ReadFile(files, path, asset, min_sequence) ==
    IF SkipFile(path, min_sequence) THEN <<>>
    ELSE LET rows == SelectSeq(files[path], LAMBDA r : RowMatches(r, asset, min_sequence))
         IN [i \in 1..Len(rows) |-> EventFromRow(path.event_type, rows[i])]

RECURSIVE ReadFiles(_, _, _, _)
\* The loop over the listing; the listing order is the filesystem's.
ReadFiles(files, paths, asset, min_sequence) ==
    IF paths = {} THEN <<>>
    ELSE LET p == CHOOSE q \in paths : TRUE
         IN ReadFile(files, p, asset, min_sequence)
            \o ReadFiles(files, paths \ {p}, asset, min_sequence)

\* Recursive listing of every .parquet file below dir
read_events_from_directory(files, dir, asset, min_sequence) ==
    LET listing == {p \in DOMAIN files :
                        /\ p.event_type = dir.event_type
                        /\ p.token_prefix = dir.token_prefix}
    IN ReadFiles(files, listing, asset, min_sequence)

merge_buffer(buffer, asset, sequence_number) ==
    SelectSeq(buffer, LAMBDA e : e.asset = asset /\ e.sequence_number > sequence_number)

\* std::sort by get_seq(a) < get_seq(b)
SortBySeq(events) ==
    SortByKey(events, [i \in 1..Len(events) |-> events[i].sequence_number])

\* Faulty variant of Parquet_read: the combined result is not sorted
Parquet_read_Unsorted(files, bufs, asset, sequence_number) ==
    LET disk(event_type) ==
            read_events_from_directory(files, events_dir(event_type, asset.token_id),
                                       asset, sequence_number)
    IN disk("book_snapshot") \o disk("book_delta")
       \o disk("trade_event") \o disk("tick_size_change")
       \o merge_buffer(bufs[1], asset, sequence_number)
       \o merge_buffer(bufs[2], asset, sequence_number)
       \o merge_buffer(bufs[3], asset, sequence_number)
       \o merge_buffer(bufs[4], asset, sequence_number)

\* get_events_since on a given filesystem and given buffers
Parquet_read(files, bufs, asset, sequence_number) ==
    LET disk(event_type) ==
            read_events_from_directory(files, events_dir(event_type, asset.token_id),
                                       asset, sequence_number)
        result == disk("book_snapshot") \o disk("book_delta")
                  \o disk("trade_event") \o disk("tick_size_change")
                  \o merge_buffer(bufs[1], asset, sequence_number)
                  \o merge_buffer(bufs[2], asset, sequence_number)
                  \o merge_buffer(bufs[3], asset, sequence_number)
                  \o merge_buffer(bufs[4], asset, sequence_number)
    IN SortBySeq(result)

Parquet_get_events_since(asset, sequence_number) ==
    Parquet_read(event_files,
                 <<snapshot_buffer_, delta_buffer_, trade_buffer_, tick_size_buffer_>>,
                 asset, sequence_number)

\* Everything the four buffers hold
BufferedEvents == snapshot_buffer_ \o delta_buffer_ \o trade_buffer_ \o tick_size_buffer_

\* ------------------------------------------------------------------------
\* ParquetOrderBookRepository: snapshot storage
\* ------------------------------------------------------------------------
\* The single row written by store_snapshot
SnapshotRow(book) ==
    LET has_trade == book.latest_trade # <<>>
        trade == book.latest_trade[1]
    IN [condition_id |-> book.asset.condition_id,
        token_id |-> book.asset.token_id,
        timestamp_ms |-> book.timestamp,
        sequence_number |-> book.last_sequence_number,
        tick_size |-> book.tick_size,
        book_hash |-> book.book_hash,
        bid_prices |-> Column(book.bids, LAMBDA l : l.price),
        bid_sizes |-> Column(book.bids, LAMBDA l : l.size),
        ask_prices |-> Column(book.asks, LAMBDA l : l.price),
        ask_sizes |-> Column(book.asks, LAMBDA l : l.size),
        trade_price |-> IF has_trade THEN trade.price ELSE 0,
        trade_size |-> IF has_trade THEN trade.size ELSE 0,
        trade_side |-> IF has_trade THEN SideToU8(trade.side) ELSE 0,
        trade_fee_rate_bps |-> IF has_trade THEN trade.fee_rate_bps ELSE "",
        trade_timestamp_ms |-> IF has_trade THEN trade.timestamp ELSE 0,
        has_trade |-> has_trade]

Parquet_store_snapshot(book) ==
    snapshot_files' = (snapshot_path(book.asset.token_id) :> SnapshotRow(book))
                      @@ snapshot_files

\* The book rebuilt from a stored row
BookFromRow(row) ==
    LET snap_asset == MarketAsset(row.condition_id, row.token_id)
        ts == row.timestamp_ms
        seq == row.sequence_number
        snap == BookSnapshot(snap_asset, ts, seq,
                             Levels(row.bid_prices, row.bid_sizes),
                             Levels(row.ask_prices, row.ask_sizes), row.book_hash)
        book1 == apply_BookSnapshot(empty(snap_asset), snap)
        book2 == IF row.tick_size # DefaultTickSize
                 THEN apply_TickSizeChange(book1,
                          TickSizeChange(snap_asset, ts, seq, DefaultTickSize, row.tick_size))
                 ELSE book1
    IN IF row.has_trade
       THEN apply_TradeEvent(book2,
                TradeEvent(snap_asset, row.trade_timestamp_ms, seq,
                           row.trade_price, row.trade_size,
                           SideFromU8(row.trade_side), row.trade_fee_rate_bps))
       ELSE book2

Parquet_get_latest_snapshot(asset) ==
    LET path == snapshot_path(asset.token_id)
    IN IF path \notin DOMAIN snapshot_files THEN <<>>
       ELSE LET row == snapshot_files[path]
            IN IF row.token_id # asset.token_id \/ row.condition_id # asset.condition_id
               THEN <<>>
               ELSE <<BookFromRow(row)>>

\* ------------------------------------------------------------------------
\* ParquetOrderBookRepository: append and flush
\* ------------------------------------------------------------------------
\* Faulty variant of maybe_flush: the threshold itself does not flush
maybe_flush_StrictlyAbove(bufs) ==
    LET total == Len(bufs[1]) + Len(bufs[2]) + Len(bufs[3]) + Len(bufs[4])
    IN total > write_buffer_size \/ elapsed >= FlushSeconds

\* Faulty variant of maybe_flush: the clock is not consulted
maybe_flush_SizeOnly(bufs) ==
    LET total == Len(bufs[1]) + Len(bufs[2]) + Len(bufs[3]) + Len(bufs[4])
    IN total >= write_buffer_size

\* The condition under which maybe_flush() flushes, on the buffers after
\* the push
maybe_flush(bufs) ==
    LET total == Len(bufs[1]) + Len(bufs[2]) + Len(bufs[3]) + Len(bufs[4])
    IN total >= write_buffer_size \/ elapsed >= FlushSeconds

\* Faulty variant of Parquet_append_event: a flush writes the buffers but
\* does not clear them
Parquet_append_event_NoClear(event) ==
    LET seq == event.sequence_number
        bufs == <<IF event.kind = "BookSnapshot" THEN Append(snapshot_buffer_, event)
                  ELSE snapshot_buffer_,
                  IF event.kind = "BookDelta" THEN Append(delta_buffer_, event)
                  ELSE delta_buffer_,
                  IF event.kind = "TradeEvent" THEN Append(trade_buffer_, event)
                  ELSE trade_buffer_,
                  IF event.kind = "TickSizeChange" THEN Append(tick_size_buffer_, event)
                  ELSE tick_size_buffer_>>
    IN /\ snapshot_buffer_' = bufs[1]
       /\ delta_buffer_' = bufs[2]
       /\ trade_buffer_' = bufs[3]
       /\ tick_size_buffer_' = bufs[4]
       /\ min_seq_in_buffer_' = (IF min_seq_in_buffer_ = 0 THEN seq
                                 ELSE min_seq_in_buffer_)
       /\ max_seq_in_buffer_' = seq
       /\ IF maybe_flush(bufs)
          THEN event_files' = flush(event_files, bufs) /\ elapsed' = 0
          ELSE UNCHANGED <<elapsed, event_files>>

\* append_event(): push into the buffer of the event's kind, then maybe_flush()
Parquet_append_event(event) ==
    LET seq == event.sequence_number
        bufs == <<IF event.kind = "BookSnapshot" THEN Append(snapshot_buffer_, event)
                  ELSE snapshot_buffer_,
                  IF event.kind = "BookDelta" THEN Append(delta_buffer_, event)
                  ELSE delta_buffer_,
                  IF event.kind = "TradeEvent" THEN Append(trade_buffer_, event)
                  ELSE trade_buffer_,
                  IF event.kind = "TickSizeChange" THEN Append(tick_size_buffer_, event)
                  ELSE tick_size_buffer_>>
    IN IF maybe_flush(bufs)
       THEN /\ event_files' = flush(event_files, bufs)
            /\ snapshot_buffer_' = <<>>
            /\ delta_buffer_' = <<>>
            /\ trade_buffer_' = <<>>
            /\ tick_size_buffer_' = <<>>
            /\ min_seq_in_buffer_' = 0
            /\ max_seq_in_buffer_' = 0
            /\ elapsed' = 0
       ELSE /\ snapshot_buffer_' = bufs[1]
            /\ delta_buffer_' = bufs[2]
            /\ trade_buffer_' = bufs[3]
            /\ tick_size_buffer_' = bufs[4]
            /\ min_seq_in_buffer_' = (IF min_seq_in_buffer_ = 0 THEN seq
                                      ELSE min_seq_in_buffer_)
            /\ max_seq_in_buffer_' = seq
            /\ UNCHANGED <<elapsed, event_files>>

\* flush() when the write or the close of the files of the event types in
\* `failing` reports an error: the Status is discarded, no readable file is
\* left for those buffers, and flush() goes on to clear them
flush_write_fails(files, bufs, failing) ==
    flush(files,
          <<IF "book_snapshot" \in failing THEN <<>> ELSE bufs[1],
            IF "book_delta" \in failing THEN <<>> ELSE bufs[2],
            IF "trade_event" \in failing THEN <<>> ELSE bufs[3],
            IF "tick_size_change" \in failing THEN <<>> ELSE bufs[4]>>)

\* append_event() whose flush meets the write errors of `failing`
Parquet_append_event_write_fails(event, failing) ==
    LET bufs == <<IF event.kind = "BookSnapshot" THEN Append(snapshot_buffer_, event)
                  ELSE snapshot_buffer_,
                  IF event.kind = "BookDelta" THEN Append(delta_buffer_, event)
                  ELSE delta_buffer_,
                  IF event.kind = "TradeEvent" THEN Append(trade_buffer_, event)
                  ELSE trade_buffer_,
                  IF event.kind = "TickSizeChange" THEN Append(tick_size_buffer_, event)
                  ELSE tick_size_buffer_>>
    IN /\ maybe_flush(bufs)
       /\ event_files' = flush_write_fails(event_files, bufs, failing)
       /\ snapshot_buffer_' = <<>>
       /\ delta_buffer_' = <<>>
       /\ trade_buffer_' = <<>>
       /\ tick_size_buffer_' = <<>>
       /\ min_seq_in_buffer_' = 0
       /\ max_seq_in_buffer_' = 0
       /\ elapsed' = 0

\* ~ParquetOrderBookRepository(): flush() whatever the buffers hold
Parquet_destructor ==
    /\ event_files' = flush(event_files,
            <<snapshot_buffer_, delta_buffer_, trade_buffer_, tick_size_buffer_>>)
    /\ snapshot_buffer_' = <<>>
    /\ delta_buffer_' = <<>>
    /\ trade_buffer_' = <<>>
    /\ tick_size_buffer_' = <<>>
    /\ min_seq_in_buffer_' = 0
    /\ max_seq_in_buffer_' = 0

\* ------------------------------------------------------------------------
\* IOrderBookRepository as seen by the service
\* ------------------------------------------------------------------------
append_event(event) ==
    /\ appended' = Append(appended, event)
    /\ IF repository_ = "memory"
       THEN InMemory_append_event(event) /\ UNCHANGED parquetEventVars
       ELSE Parquet_append_event(event) /\ UNCHANGED memoryEventVars

store_snapshot(book) ==
    /\ snapshot_calls' = Append(snapshot_calls, book)
    /\ IF repository_ = "memory"
       THEN InMemory_store_snapshot(book) /\ UNCHANGED parquetSnapshotVars
       ELSE Parquet_store_snapshot(book) /\ UNCHANGED memorySnapshotVars

get_events_since(asset, sequence_number) ==
    IF repository_ = "memory"
    THEN InMemory_get_events_since(asset, sequence_number)
    ELSE Parquet_get_events_since(asset, sequence_number)

get_latest_snapshot(asset) ==
    IF repository_ = "memory"
    THEN InMemory_get_latest_snapshot(asset)
    ELSE Parquet_get_latest_snapshot(asset)

\* ------------------------------------------------------------------------
\* OrderBookService
\* ------------------------------------------------------------------------
\* Faulty variant of SnapshotDue: tests the counter after its increment
\* instead of the sequence number just assigned
SnapshotDue_NextCounter(sequence_number) ==
    snapshot_interval_ > 0 /\ (sequence_number + 1) % snapshot_interval_ = 0

\* Faulty variant of SnapshotDue: an interval of 0 is taken as "every event"
SnapshotDue_ZeroMeansAlways(sequence_number) ==
    snapshot_interval_ = 0 \/ sequence_number % snapshot_interval_ = 0

\* The condition under which maybe_snapshot() stores a snapshot
SnapshotDue(sequence_number) ==
    snapshot_interval_ > 0 /\ sequence_number % snapshot_interval_ = 0

\* Faulty variant of maybe_snapshot: the book stored is the one from before
\* the event
maybe_snapshot_StaleBook(asset, sequence_number) ==
    IF SnapshotDue(sequence_number) /\ asset \in DOMAIN current_books_'
    THEN store_snapshot(IF asset \in DOMAIN current_books_
                        THEN current_books_[asset] ELSE empty(asset))
    ELSE UNCHANGED <<snapshot_calls, memorySnapshotVars, parquetSnapshotVars>>

\* Called once current_books_ holds the updated projection
maybe_snapshot(asset, sequence_number) ==
    IF SnapshotDue(sequence_number) /\ asset \in DOMAIN current_books_'
    THEN store_snapshot(current_books_'[asset])
    ELSE UNCHANGED <<snapshot_calls, memorySnapshotVars, parquetSnapshotVars>>

\* Faulty variant of AssignSequence: one counter per asset
AssignSequence_PerAsset(event) ==
    [event EXCEPT !.sequence_number =
        1 + Len(SelectSeq(appended, LAMBDA e : e.asset = event.asset))]

\* The sequence number on_event gives to the event it was handed
AssignSequence(event) == [event EXCEPT !.sequence_number = next_sequence_number_]

\* Faulty variant of Project: the map keeps only the entry just updated
Project_DropsOthers(books, numbered) ==
    LET asset == numbered.asset
        current == IF asset \in DOMAIN books THEN books[asset] ELSE empty(asset)
    IN (asset :> apply(current, numbered))

\* Faulty variant of Project: the event is applied to a new empty book
\* even when the asset already has a projection
Project_AlwaysEmpty(books, numbered) ==
    LET asset == numbered.asset
    IN (asset :> apply(empty(asset), numbered)) @@ books

\* The projection entry after the event: found or created, then applied
Project(books, numbered) ==
    LET asset == numbered.asset
        current == IF asset \in DOMAIN books THEN books[asset] ELSE empty(asset)
    IN (asset :> apply(current, numbered)) @@ books

on_event(event) ==
    LET numbered == AssignSequence(event)
        asset == numbered.asset
    IN /\ next_sequence_number_' = next_sequence_number_ + 1
       /\ append_event(numbered)
       /\ current_books_' = Project(current_books_, numbered)
       /\ maybe_snapshot(asset, current_books_'[asset].last_sequence_number)
       /\ UNCHANGED <<snapshot_interval_, repository_, write_buffer_size, lockVars, discoveryVars, clientVars,
                      restarts, prev_books, failed, write_errors>>

\* Where the call may leave the columnar repository when append_event
\* throws: in push_back (the sequence range is already noted, nothing is
\* buffered) or in maybe_flush (the event is buffered, nothing is written)
Parquet_append_event_throws(event) ==
    /\ min_seq_in_buffer_' = (IF min_seq_in_buffer_ = 0 THEN event.sequence_number
                              ELSE min_seq_in_buffer_)
    /\ max_seq_in_buffer_' = event.sequence_number
    /\ \/ UNCHANGED <<snapshot_buffer_, delta_buffer_, trade_buffer_, tick_size_buffer_>>
       \/ /\ snapshot_buffer_' = (IF event.kind = "BookSnapshot"
                                  THEN Append(snapshot_buffer_, event)
                                  ELSE snapshot_buffer_)
          /\ delta_buffer_' = (IF event.kind = "BookDelta"
                               THEN Append(delta_buffer_, event) ELSE delta_buffer_)
          /\ trade_buffer_' = (IF event.kind = "TradeEvent"
                               THEN Append(trade_buffer_, event) ELSE trade_buffer_)
          /\ tick_size_buffer_' = (IF event.kind = "TickSizeChange"
                                   THEN Append(tick_size_buffer_, event)
                                   ELSE tick_size_buffer_)
    /\ UNCHANGED <<elapsed, event_files>>

\* Faulty variant of on_event_append_throws: the projection is updated
\* before the event is persisted
on_event_append_throws_ProjectsFirst(event) ==
    LET numbered == AssignSequence(event)
    IN /\ next_sequence_number_' = next_sequence_number_ + 1
       /\ current_books_' = Project(current_books_, numbered)
       /\ failed' = Append(failed, [asset |-> numbered.asset,
                                    sequence_number |-> numbered.sequence_number])
       /\ IF repository_ = "memory"
          THEN UNCHANGED <<memoryEventVars, parquetEventVars>>
          ELSE Parquet_append_event_throws(numbered) /\ UNCHANGED memoryEventVars
       /\ UNCHANGED <<snapshot_interval_, repository_, write_buffer_size, componentVars,
                      memorySnapshotVars, parquetSnapshotVars,
                      appended, snapshot_calls, restarts, prev_books, write_errors>>

\* on_event when repository_.append_event(numbered) throws: the counter
\* was already advanced, the exception leaves on_event before the
\* projection is looked up
on_event_append_throws(event) ==
    LET numbered == AssignSequence(event)
    IN /\ next_sequence_number_' = next_sequence_number_ + 1
       /\ failed' = Append(failed, [asset |-> numbered.asset,
                                    sequence_number |-> numbered.sequence_number])
       /\ IF repository_ = "memory"
          THEN UNCHANGED <<memoryEventVars, parquetEventVars>>
          ELSE Parquet_append_event_throws(numbered) /\ UNCHANGED memoryEventVars
       /\ UNCHANGED <<current_books_, snapshot_interval_, repository_,
                      write_buffer_size, componentVars, memorySnapshotVars, parquetSnapshotVars,
                      appended, snapshot_calls, restarts, prev_books, write_errors>>

\* resolve_asset(): the first asset of the map with the token id (the
\* assets of the inputs have distinct token ids)
resolve_asset(token_id) ==
    LET matching == {a \in DOMAIN current_books_ : a.token_id = token_id}
    IN IF matching = {} THEN <<>> ELSE <<CHOOSE a \in matching : TRUE>>

get_current_book(asset) ==
    IF asset \in DOMAIN current_books_ THEN <<current_books_[asset]>> ELSE <<>>

event_count == next_sequence_number_ - 1

book_count == Cardinality(DOMAIN current_books_)

\* ------------------------------------------------------------------------
\* Inputs: the events the feed delivers and the callers hand to the repository
\* ------------------------------------------------------------------------
Token1 == <<6, 5, 8, 1, 8, 6, 1>>

Token3 == <<1, 2, 3, 4, 5, 6, 7, 8, 1>>

Token4 == <<1, 2, 3, 4, 5, 6, 7, 8, 2>>

\* Asset1/Asset2: same token id, different condition id.
\* Asset3/Asset4: different token ids with the same first 8 characters.
\* Asset1/Asset3: token ids that differ within their first 8 characters.
Asset1 == MarketAsset("0xbd31dc", Token1)

Asset2 == MarketAsset("0xother", Token1)

Asset3 == MarketAsset("0xbd31dc", Token3)

Asset4 == MarketAsset("0xbd31dc", Token4)

\* Token ids longer than 16 characters: Token5/Token6 share their first 16
Token5 == <<7, 1, 3, 2, 1, 0, 4, 5, 9, 8, 6, 5, 3, 2, 7, 7, 1>>

Token6 == <<7, 1, 3, 2, 1, 0, 4, 5, 9, 8, 6, 5, 3, 2, 7, 7, 2>>

Asset5 == MarketAsset("0xbd31dc", Token5)

Asset6 == MarketAsset("0xbd31dc", Token6)

\* Asset5's token id under another condition id
Asset7 == MarketAsset("0xother", Token5)

ServiceAssets == {Asset1, Asset3}

SnapshotAssets == {Asset5, Asset6, Asset7}

RepoAssets == {Asset1, Asset2, Asset3, Asset4}

\* Two instants on different UTC days and hours
Timestamps == {1000, 90000000}

\* Sequence numbers carried by inbound events (the parser leaves 0)
InboundSequences == {0, 7}

EventsFor(asset, timestamp, sequence_number) ==
    { BookSnapshot(asset, timestamp, sequence_number,
                   <<PriceLevel(480, 30), PriceLevel(490, 20)>>,
                   <<PriceLevel(530, 60), PriceLevel(520, 25)>>, "0xhash"),
      BookDelta(asset, timestamp, sequence_number,
                <<PriceLevelDelta(asset.token_id, 500, 100, BUY, 500, 520),
                  PriceLevelDelta(asset.token_id, 520, 0, SELL, 500, 530)>>),
      TradeEvent(asset, timestamp, sequence_number, 500, 10, SELL, "100"),
      TickSizeChange(asset, timestamp, sequence_number, DefaultTickSize, 1) }

LastAppendedSeq ==
    IF appended = <<>> THEN 0 ELSE appended[Len(appended)].sequence_number

\* Upstream timestamps are wall-clock readings: an event is never stamped
\* earlier than the one delivered before it.
LaterTimestamps ==
    {t \in Timestamps : appended = <<>> \/ t >= appended[Len(appended)].timestamp}

FeedEvents ==
    UNION { EventsFor(a, t, q) :
              <<a, t, q>> \in ServiceAssets \X LaterTimestamps \X InboundSequences }

RepoEvents ==
    UNION { EventsFor(a, t, LastAppendedSeq + 1) : <<a, t>> \in RepoAssets \X LaterTimestamps }

\* Events for one asset that exercise the level lists: snapshots whose
\* levels are unsorted, repeat a price or have size 0, and deltas that
\* insert, replace and remove levels on either side, two of them with two
\* changes at one price
BookEvents ==
    LET a == Asset1
        delta(price, new_size, side) ==
            BookDelta(a, 1000, 0,
                      <<PriceLevelDelta(a.token_id, price, new_size, side, 490, 520)>>)
    IN { BookSnapshot(a, 1000, 0,
                      <<PriceLevel(480, 30), PriceLevel(490, 20)>>,
                      <<PriceLevel(530, 60), PriceLevel(520, 25)>>, "0xhash"),
         BookSnapshot(a, 1000, 0,
                      <<PriceLevel(490, 20), PriceLevel(490, 30)>>,
                      <<PriceLevel(520, 25)>>, "0xdup"),
         BookSnapshot(a, 1000, 0,
                      <<PriceLevel(490, 0), PriceLevel(480, 30)>>,
                      <<PriceLevel(520, 0)>>, "0xzero"),
         delta(490, 100, BUY), delta(490, 0, BUY), delta(500, 100, BUY),
         delta(520, 0, SELL), delta(525, 5, SELL), delta(510, 5, SELL),
         BookDelta(a, 1000, 0,
                   <<PriceLevelDelta(a.token_id, 500, 100, BUY, 500, 520),
                     PriceLevelDelta(a.token_id, 500, 0, BUY, 490, 520)>>),
         BookDelta(a, 1000, 0,
                   <<PriceLevelDelta(a.token_id, 515, 0, SELL, 490, 520),
                     PriceLevelDelta(a.token_id, 515, 7, SELL, 490, 515)>>),
         TradeEvent(a, 1000, 0, 500, 10, SELL, "100"),
         TickSizeChange(a, 1000, 0, DefaultTickSize, 1) }

\* Events appended by the writer thread: two assets that share a directory
ConcEvents ==
    UNION { EventsFor(a, 1000, LastAppendedSeq + 1) : a \in {Asset1, Asset2} }

\* Books handed to store_snapshot: every book reached from empty(asset) by
\* one event, or by two events stamped at different instants
BooksOf(asset) ==
    {FoldApply(empty(asset), <<e1>>) : e1 \in EventsFor(asset, 1000, 1)}
    \cup {FoldApply(empty(asset), <<e[1], e[2]>>) :
            e \in EventsFor(asset, 1000, 1) \X EventsFor(asset, 90000000, 2)}

SnapshotBooks == UNION {BooksOf(a) : a \in SnapshotAssets}

\* Events the websocket thread parses while the driver runs
DriverEvents ==
    UNION { EventsFor(a, 1000, 0) : a \in ServiceAssets }


\* Token ids the markets API can return
TokenIds == {"a", "b", "c"}

RECURSIVE SeqsUpTo(_, _)
\* All sequences over S of length at most n
SeqsUpTo(S, n) ==
    IF n = 0 THEN {<<>>}
    ELSE LET shorter == SeqsUpTo(S, n - 1)
         IN shorter \cup {Append(q, x) : <<q, x>> \in shorter \X S}

\* Results of fetch_top_token_ids: any list, repetitions included; the
\* empty list is also what a failed request gives
FetchResults == SeqsUpTo(TokenIds, MaxFetch)

\* Threads that call poll()
Pollers == {1, 2}

\* A thread outside poll()
IdlePoller ==
    [pc |-> "idle", top_ids |-> <<>>, new_ids |-> <<>>, full_at_call |-> FALSE,
     returned |-> 0, called_back |-> FALSE, tracked_at_call |-> {},
     tracked_at_return |-> {}, added_by_others |-> {}]

\* ------------------------------------------------------------------------
\* Initial states
\* ------------------------------------------------------------------------
InitMembers ==
    /\ next_sequence_number_ = 1
    /\ current_books_ = EmptyMap
    /\ events_ = <<>>
    /\ snapshots_ = EmptyMap
    /\ snapshot_buffer_ = <<>>
    /\ delta_buffer_ = <<>>
    /\ trade_buffer_ = <<>>
    /\ tick_size_buffer_ = <<>>
    /\ min_seq_in_buffer_ = 0
    /\ max_seq_in_buffer_ = 0
    /\ elapsed = 0
    /\ event_files = EmptyMap
    /\ snapshot_files = EmptyMap
    /\ appended = <<>>
    /\ snapshot_calls = <<>>
    /\ restarts = 0
    /\ prev_books = EmptyMap
    /\ failed = <<>>
    /\ write_errors = 0
    /\ mutex_ = "free"
    /\ writer = [pc |-> "idle", t |-> 0, event |-> <<>>]
    /\ reader = [pc |-> "idle", asset |-> <<>>, result |-> <<>>, expected |-> {}]
    /\ driver = "constructed"
    /\ feed = "idle"
    /\ display = <<>>
    /\ tracked_ids_ = {}
    /\ discovery_mutex_ = 0
    /\ poller = [t \in Pollers |-> IdlePoller]
    /\ polls = 0
    /\ reported = [id \in TokenIds |-> 0]
    /\ token_ids_ = <<>>
    /\ connected_ = FALSE
    /\ caller = [pc |-> "idle", token_id |-> ""]
    /\ socket = "idle"
    /\ opens = 0
    /\ sent = <<>>

\* The members and a MarketDiscovery of the largest capacity
InitCommon ==
    /\ InitMembers
    /\ max_tracked_markets = MaxTracked

\* A service constructed over a fresh repository of either kind
Init ==
    /\ InitCommon
    /\ snapshot_interval_ \in 0..MaxInterval
    /\ \/ repository_ = "memory" /\ write_buffer_size = MaxBufferSize
       \/ repository_ = "parquet" /\ write_buffer_size \in 1..MaxBufferSize

\* A columnar repository used directly, without a service
InitRepo ==
    /\ InitCommon
    /\ snapshot_interval_ = 0
    /\ repository_ = "parquet"
    /\ write_buffer_size \in 1..MaxBufferSize

\* A columnar repository whose threshold may lie above the number of
\* appends, so that events can still be buffered when it is destroyed
InitReopen ==
    /\ InitCommon
    /\ snapshot_interval_ = 0
    /\ repository_ = "parquet"
    /\ write_buffer_size \in 1..(MaxAppends + 1)

\* A repository of either kind used directly for its snapshot store
InitSnap ==
    /\ InitCommon
    /\ snapshot_interval_ = 0
    /\ repository_ \in {"memory", "parquet"}
    /\ write_buffer_size = MaxBufferSize

\* A service over the in-memory repository, snapshots off
InitBook ==
    /\ InitCommon
    /\ snapshot_interval_ = 0
    /\ repository_ = "memory"
    /\ write_buffer_size = MaxBufferSize

\* The driver after it has built the columnar repository, the client and
\* the service; the threshold may lie above the number of events
InitDriver ==
    /\ InitCommon
    /\ snapshot_interval_ = 0
    /\ repository_ = "parquet"
    /\ write_buffer_size \in 1..(MaxEvents + 1)

\* A MarketDiscovery constructed with some capacity; nothing was loaded
InitDiscovery ==
    /\ InitMembers
    /\ snapshot_interval_ = 0
    /\ repository_ = "memory"
    /\ write_buffer_size = MaxBufferSize
    /\ max_tracked_markets \in 1..MaxTracked

\* A service over the in-memory repository that stores snapshots
InitLive ==
    /\ InitCommon
    /\ snapshot_interval_ \in 1..MaxInterval
    /\ repository_ = "memory"
    /\ write_buffer_size = MaxBufferSize

\* A service that stores a snapshot after every event, over a repository
\* of either kind
InitFault ==
    /\ InitCommon
    /\ snapshot_interval_ = 1
    /\ repository_ \in {"memory", "parquet"}
    /\ write_buffer_size = MaxBufferSize

\* ------------------------------------------------------------------------
\* Actions
\* ------------------------------------------------------------------------
\* The feed invokes the callback installed by the constructor
OnEvent ==
    /\ Len(appended) < MaxEvents
    /\ \E event \in FeedEvents : on_event(event)
    /\ UNCHANGED driverVars

\* Time passes on the steady clock read by maybe_flush()
Tick ==
    /\ repository_ = "parquet"
    /\ elapsed < FlushSeconds
    /\ elapsed' = Min2(elapsed + TickSeconds, FlushSeconds)
    /\ UNCHANGED <<serviceVars, memoryEventVars, memorySnapshotVars,
                   snapshot_buffer_, delta_buffer_, trade_buffer_, tick_size_buffer_,
                   min_seq_in_buffer_, max_seq_in_buffer_, event_files,
                   parquetSnapshotVars, write_buffer_size, componentVars, historyVars>>

\* A caller appends an event whose sequence number is above all earlier ones
AppendEvent ==
    /\ Len(appended) < MaxAppends
    /\ \E event \in RepoEvents :
            /\ append_event(event)
            /\ UNCHANGED <<serviceVars, memorySnapshotVars, parquetSnapshotVars,
                           write_buffer_size, componentVars, snapshot_calls, restarts, prev_books,
                           failed, write_errors>>

\* The process restarts: a new OrderBookService is constructed over the
\* same repository
RestartService ==
    /\ restarts < MaxRestarts
    /\ next_sequence_number_' = 1
    /\ current_books_' = EmptyMap
    /\ restarts' = restarts + 1
    /\ prev_books' = current_books_
    /\ UNCHANGED <<snapshot_interval_, repository_, memoryEventVars, memorySnapshotVars,
                   parquetEventVars, parquetSnapshotVars, write_buffer_size, componentVars,
                   appended, snapshot_calls, failed, write_errors>>

\* The repository is destroyed and a new one is constructed over the same
\* filesystem; the constructor starts with empty buffers and reads the clock
ReopenRepository ==
    /\ repository_ = "parquet"
    /\ Parquet_destructor
    /\ elapsed' = 0
    /\ UNCHANGED <<serviceVars, memoryEventVars, memorySnapshotVars,
                   parquetSnapshotVars, write_buffer_size, componentVars, historyVars>>

\* A caller stores a snapshot
StoreSnapshot ==
    /\ Len(snapshot_calls) < MaxStores
    /\ \E book \in SnapshotBooks :
            /\ store_snapshot(book)
            /\ UNCHANGED <<serviceVars, memoryEventVars, parquetEventVars,
                           write_buffer_size, componentVars, appended, restarts, prev_books, failed,
                           write_errors>>

\* The feed delivers an event of the level-list alphabet
OnBookEvent ==
    /\ Len(appended) < MaxEvents
    /\ \E event \in BookEvents : on_event(event)
    /\ UNCHANGED driverVars

\* The feed delivers an event and the repository fails to append it
OnEventAppendThrows ==
    /\ Len(appended) + Len(failed) < MaxEvents
    /\ Len(failed) < MaxFailures
    /\ \E event \in FeedEvents : on_event_append_throws(event)

\* ------------------------------------------------------------------------
\* Two threads on one ParquetOrderBookRepository, statement by statement
\* ------------------------------------------------------------------------
\* What the steps of the two threads never touch
outsideRepository == <<serviceVars, memoryEventVars, memorySnapshotVars,
                       parquetSnapshotVars, write_buffer_size, snapshot_calls,
                       restarts, prev_books, failed, write_errors,
                       driverVars, discoveryVars, clientVars>>

BufferTypes == <<"book_snapshot", "book_delta", "trade_event", "tick_size_change">>

BufferAt(t) ==
    CASE t = 1 -> snapshot_buffer_
      [] t = 2 -> delta_buffer_
      [] t = 3 -> trade_buffer_
      [] t = 4 -> tick_size_buffer_

\* The events whose append_event call has returned
Returned ==
    IF writer.pc = "idle" THEN appended ELSE SubSeq(appended, 1, Len(appended) - 1)

\* The writer thread calls append_event(event)
Writer_call ==
    /\ writer.pc = "idle"
    /\ Len(appended) < MaxAppends
    /\ \E event \in ConcEvents :
            /\ writer' = [pc |-> "lock", t |-> 0, event |-> <<event>>]
            /\ appended' = Append(appended, event)
    /\ UNCHANGED <<outsideRepository, parquetEventVars, mutex_, reader>>

\* std::lock_guard lock(mutex_) in append_event
Writer_lock ==
    /\ writer.pc = "lock"
    /\ mutex_ = "free"
    /\ mutex_' = "writer"
    /\ writer' = [writer EXCEPT !.pc = "push"]
    /\ UNCHANGED <<outsideRepository, parquetEventVars, appended, reader>>

\* The sequence range is noted and the event pushed into its buffer
Writer_push ==
    /\ writer.pc = "push"
    /\ LET event == writer.event[1]
       IN /\ min_seq_in_buffer_' = (IF min_seq_in_buffer_ = 0 THEN event.sequence_number
                                    ELSE min_seq_in_buffer_)
          /\ max_seq_in_buffer_' = event.sequence_number
          /\ snapshot_buffer_' = (IF event.kind = "BookSnapshot"
                                  THEN Append(snapshot_buffer_, event)
                                  ELSE snapshot_buffer_)
          /\ delta_buffer_' = (IF event.kind = "BookDelta"
                               THEN Append(delta_buffer_, event) ELSE delta_buffer_)
          /\ trade_buffer_' = (IF event.kind = "TradeEvent"
                               THEN Append(trade_buffer_, event) ELSE trade_buffer_)
          /\ tick_size_buffer_' = (IF event.kind = "TickSizeChange"
                                   THEN Append(tick_size_buffer_, event)
                                   ELSE tick_size_buffer_)
    /\ writer' = [writer EXCEPT !.pc = "maybe_flush"]
    /\ UNCHANGED <<outsideRepository, elapsed, event_files, appended, mutex_, reader>>

\* maybe_flush(): the test
Writer_maybe_flush ==
    /\ writer.pc = "maybe_flush"
    /\ writer' = IF maybe_flush(<<snapshot_buffer_, delta_buffer_,
                                  trade_buffer_, tick_size_buffer_>>)
                 THEN [writer EXCEPT !.pc = "write", !.t = 1]
                 ELSE [writer EXCEPT !.pc = "unlock"]
    /\ UNCHANGED <<outsideRepository, parquetEventVars, appended, mutex_, reader>>

\* flush(): if (!buffer.empty()) flush_buffer(type, buffer) for buffer t
Writer_flush_buffer ==
    /\ writer.pc = "write"
    /\ IF BufferAt(writer.t) # <<>>
       THEN /\ event_files' = flush_buffer(event_files, BufferTypes[writer.t],
                                           BufferAt(writer.t))
            /\ writer' = [writer EXCEPT !.pc = "clear"]
       ELSE /\ UNCHANGED event_files
            /\ writer' = IF writer.t < 4 THEN [writer EXCEPT !.t = writer.t + 1]
                         ELSE [writer EXCEPT !.pc = "reset"]
    /\ UNCHANGED <<outsideRepository, snapshot_buffer_, delta_buffer_, trade_buffer_,
                   tick_size_buffer_, min_seq_in_buffer_, max_seq_in_buffer_,
                   elapsed, appended, mutex_, reader>>

\* flush(): buffer.clear() for buffer t
Writer_clear ==
    /\ writer.pc = "clear"
    /\ snapshot_buffer_' = (IF writer.t = 1 THEN <<>> ELSE snapshot_buffer_)
    /\ delta_buffer_' = (IF writer.t = 2 THEN <<>> ELSE delta_buffer_)
    /\ trade_buffer_' = (IF writer.t = 3 THEN <<>> ELSE trade_buffer_)
    /\ tick_size_buffer_' = (IF writer.t = 4 THEN <<>> ELSE tick_size_buffer_)
    /\ writer' = IF writer.t < 4 THEN [writer EXCEPT !.pc = "write", !.t = writer.t + 1]
                 ELSE [writer EXCEPT !.pc = "reset"]
    /\ UNCHANGED <<outsideRepository, min_seq_in_buffer_, max_seq_in_buffer_,
                   elapsed, event_files, appended, mutex_, reader>>

\* flush(): the sequence range and last_flush_time_ are reset
Writer_reset ==
    /\ writer.pc = "reset"
    /\ min_seq_in_buffer_' = 0
    /\ max_seq_in_buffer_' = 0
    /\ elapsed' = 0
    /\ writer' = [writer EXCEPT !.pc = "unlock"]
    /\ UNCHANGED <<outsideRepository, snapshot_buffer_, delta_buffer_, trade_buffer_,
                   tick_size_buffer_, event_files, appended, mutex_, reader>>

\* append_event returns: the lock_guard releases the mutex
Writer_unlock ==
    /\ writer.pc = "unlock"
    /\ mutex_' = (IF mutex_ = "writer" THEN "free" ELSE mutex_)
    /\ writer' = [pc |-> "idle", t |-> 0, event |-> <<>>]
    /\ UNCHANGED <<outsideRepository, parquetEventVars, appended, reader>>

\* The reader thread calls get_events_since(asset, 0); `expected` notes
\* the events of the asset whose append had returned by then
Reader_call ==
    /\ reader.pc = "idle"
    /\ \E asset \in {Asset1, Asset2} :
            reader' = [pc |-> "lock", asset |-> <<asset>>, result |-> <<>>,
                       expected |-> {Returned[i] : i \in {j \in 1..Len(Returned) :
                                                            Returned[j].asset = asset}}]
    /\ UNCHANGED <<outsideRepository, parquetEventVars, appended, mutex_, writer>>

\* Faulty variant of Reader_lock: the read goes on without the mutex
Reader_lock_NoMutex ==
    /\ reader.pc = "lock"
    /\ reader' = [reader EXCEPT !.pc = "read_disk"]
    /\ UNCHANGED <<outsideRepository, parquetEventVars, appended, mutex_, writer>>

\* std::lock_guard lock(mutex_) in get_events_since
Reader_lock ==
    /\ reader.pc = "lock"
    /\ mutex_ = "free"
    /\ mutex_' = "reader"
    /\ reader' = [reader EXCEPT !.pc = "read_disk"]
    /\ UNCHANGED <<outsideRepository, parquetEventVars, appended, writer>>

\* The loop over the four event type directories
Reader_read_disk ==
    /\ reader.pc = "read_disk"
    /\ LET asset == reader.asset[1]
           disk(event_type) ==
               read_events_from_directory(event_files,
                   events_dir(event_type, asset.token_id), asset, 0)
       IN reader' = [reader EXCEPT
                        !.pc = "merge_buffers",
                        !.result = disk("book_snapshot") \o disk("book_delta")
                                   \o disk("trade_event") \o disk("tick_size_change")]
    /\ UNCHANGED <<outsideRepository, parquetEventVars, appended, mutex_, writer>>

\* merge_buffer for the four buffers
Reader_merge_buffers ==
    /\ reader.pc = "merge_buffers"
    /\ LET asset == reader.asset[1]
       IN reader' = [reader EXCEPT
                        !.pc = "return",
                        !.result = reader.result
                                   \o merge_buffer(snapshot_buffer_, asset, 0)
                                   \o merge_buffer(delta_buffer_, asset, 0)
                                   \o merge_buffer(trade_buffer_, asset, 0)
                                   \o merge_buffer(tick_size_buffer_, asset, 0)]
    /\ UNCHANGED <<outsideRepository, parquetEventVars, appended, mutex_, writer>>

\* The result is sorted and returned: the lock_guard releases the mutex
Reader_return ==
    /\ reader.pc = "return"
    /\ reader' = [reader EXCEPT !.pc = "done", !.result = SortBySeq(reader.result)]
    /\ mutex_' = (IF mutex_ = "reader" THEN "free" ELSE mutex_)
    /\ UNCHANGED <<outsideRepository, parquetEventVars, appended, writer>>

\* The caller has used the result
Reader_finish ==
    /\ reader.pc = "done"
    /\ reader' = [pc |-> "idle", asset |-> <<>>, result |-> <<>>, expected |-> {}]
    /\ UNCHANGED <<outsideRepository, parquetEventVars, appended, mutex_, writer>>

\* A caller appends an event; the flush this triggers has a file write
\* that reports an error, for the non-empty buffers of the types chosen
AppendEventWriteFails ==
    /\ Len(appended) < MaxAppends
    /\ write_errors < MaxWriteErrors
    /\ \E event \in RepoEvents :
        \E failing \in SUBSET {"book_snapshot", "book_delta",
                               "trade_event", "tick_size_change"} :
            /\ failing # {}
            /\ \A t \in failing :
                    \E e \in {event} \cup {BufferedEvents[i] : i \in 1..Len(BufferedEvents)} :
                        t = (CASE e.kind = "BookSnapshot" -> "book_snapshot"
                               [] e.kind = "BookDelta" -> "book_delta"
                               [] e.kind = "TradeEvent" -> "trade_event"
                               [] e.kind = "TickSizeChange" -> "tick_size_change")
            /\ appended' = Append(appended, event)
            /\ Parquet_append_event_write_fails(event, failing)
            /\ write_errors' = write_errors + 1
            /\ UNCHANGED <<serviceVars, memoryEventVars, memorySnapshotVars,
                           parquetSnapshotVars, write_buffer_size, componentVars, snapshot_calls,
                           restarts, prev_books, failed>>

\* The feed delivers events until an exception leaves its message handler
OnEventWhileHealthy == failed = <<>> /\ OnEvent

\* PolymarketClient::start(): ws_.start() spawns the websocket thread
PolymarketClient_start == feed' = "running"

\* ws_.stop() returning while the websocket thread keeps running
PolymarketClient_stop_NoJoin == feed' = feed

\* PolymarketClient::stop(): ws_.stop() closes the connection and joins the
\* websocket thread: it returns once a running message callback has
\* returned, and no callback runs afterwards
PolymarketClient_stop == feed # "in_on_event" /\ feed' = "stopped"

\* main(): service.start()
Main_start ==
    /\ driver = "constructed"
    /\ driver' = "running"
    /\ PolymarketClient_start
    /\ UNCHANGED <<serviceVars, memoryEventVars, memorySnapshotVars, parquetEventVars,
                   parquetSnapshotVars, write_buffer_size, lockVars, discoveryVars, clientVars, historyVars, display>>

\* The websocket thread has parsed a message and calls on_event_
Feed_enter_on_event ==
    /\ feed = "running"
    /\ Len(appended) < MaxEvents
    /\ feed' = "in_on_event"
    /\ UNCHANGED <<serviceVars, memoryEventVars, memorySnapshotVars, parquetEventVars,
                   parquetSnapshotVars, write_buffer_size, lockVars, discoveryVars, clientVars, historyVars,
                   driver, display>>

\* on_event runs on the websocket thread and returns to the message handler
Feed_on_event ==
    /\ feed = "in_on_event"
    /\ \E event \in DriverEvents : on_event(event)
    /\ feed' = "running"
    /\ UNCHANGED <<driver, display>>

\* The main thread wakes up in its loop and starts its queries
Main_query_begin ==
    /\ driver = "running"
    /\ driver' = "querying"
    /\ UNCHANGED <<serviceVars, memoryEventVars, memorySnapshotVars, parquetEventVars,
                   parquetSnapshotVars, write_buffer_size, lockVars, discoveryVars, clientVars, historyVars,
                   feed, display>>

\* The main thread reads the service: resolve_asset and get_current_book in
\* the display loop, event_count and book_count in the stats loop.  No lock
\* is taken; a read that overlaps on_event is a data race, whose outcome
\* is either what the members hold or anything else
Main_query_end ==
    /\ driver = "querying"
    /\ driver' = "running"
    /\ LET asset == resolve_asset(Token1)
           book == IF asset = <<>> THEN <<>> ELSE get_current_book(asset[1])
       IN \E valid \in (IF feed = "in_on_event" THEN BOOLEAN ELSE {TRUE}) :
            display' = <<[valid |-> valid,
                          book |-> IF valid THEN book ELSE <<>>,
                          event_count |-> IF valid THEN event_count ELSE 0,
                          book_count |-> IF valid THEN book_count ELSE 0]>>
    /\ UNCHANGED <<serviceVars, memoryEventVars, memorySnapshotVars, parquetEventVars,
                   parquetSnapshotVars, write_buffer_size, lockVars, discoveryVars, clientVars, historyVars, feed>>

\* main(): the stats loop has seen running == false; service.stop()
Main_stop ==
    /\ driver = "running"
    /\ driver' = "stopped"
    /\ PolymarketClient_stop
    /\ UNCHANGED <<serviceVars, memoryEventVars, memorySnapshotVars, parquetEventVars,
                   parquetSnapshotVars, write_buffer_size, lockVars, discoveryVars, clientVars, historyVars, display>>

\* main() returns: service, declared last, is destroyed first, then client,
\* whose destructor stops the websocket again
Main_destroy_client ==
    /\ driver = "stopped"
    /\ driver' = "client_destroyed"
    /\ PolymarketClient_stop
    /\ UNCHANGED <<serviceVars, memoryEventVars, memorySnapshotVars, parquetEventVars,
                   parquetSnapshotVars, write_buffer_size, lockVars, discoveryVars, clientVars, historyVars, display>>

\* repo, declared before client and service, is destroyed after them
Main_destroy_repo ==
    /\ driver = "client_destroyed"
    /\ driver' = "repo_destroyed"
    /\ Parquet_destructor
    /\ UNCHANGED <<serviceVars, memoryEventVars, memorySnapshotVars, elapsed, feed,
                   parquetSnapshotVars, write_buffer_size, lockVars, discoveryVars, clientVars, historyVars, display>>

Next == OnEvent \/ Tick

Spec == Init /\ [][Next]_vars

NextRepo == AppendEvent \/ Tick

SpecRepo == InitRepo /\ [][NextRepo]_vars

NextReopen == AppendEvent \/ Tick \/ ReopenRepository

SpecReopen == InitReopen /\ [][NextReopen]_vars

NextSnap == StoreSnapshot

SpecSnap == InitSnap /\ [][NextSnap]_vars

NextBook == OnBookEvent

SpecBook == InitBook /\ [][NextBook]_vars

NextFault == OnEventWhileHealthy \/ Tick \/ OnEventAppendThrows

SpecFault == InitFault /\ [][NextFault]_vars

NextWriteFail == AppendEvent \/ Tick \/ AppendEventWriteFails

SpecWriteFail == InitRepo /\ [][NextWriteFail]_vars

NextConc ==
    \/ Writer_call \/ Writer_lock \/ Writer_push \/ Writer_maybe_flush
    \/ Writer_flush_buffer \/ Writer_clear \/ Writer_reset \/ Writer_unlock
    \/ Reader_call \/ Reader_lock \/ Reader_read_disk \/ Reader_merge_buffers
    \/ Reader_return \/ Reader_finish

SpecConc == InitRepo /\ [][NextConc]_vars

NextDriver ==
    \/ Main_start \/ Feed_enter_on_event \/ Feed_on_event \/ Tick
    \/ Main_stop \/ Main_destroy_client \/ Main_destroy_repo

SpecDriver == InitDriver /\ [][NextDriver]_vars

\* ------------------------------------------------------------------------
\* MarketDiscovery::poll, statement by statement
\* ------------------------------------------------------------------------
\* What poll() never touches
outsideDiscovery == <<serviceVars, memoryEventVars, memorySnapshotVars, parquetEventVars,
                      parquetSnapshotVars, write_buffer_size, historyVars, lockVars,
                      driverVars, clientVars>>

\* at_capacity(): read under the mutex
at_capacity ==
    Cardinality(tracked_ids_) >= max_tracked_markets

RECURSIVE InsertLoop_NoCap(_, _, _, _)
\* Faulty variant of InsertLoop: remaining is not consulted
InsertLoop_NoCap(tracked, new_ids, remaining, top_ids) ==
    IF top_ids = <<>> THEN <<tracked, new_ids>>
    ELSE LET id == Head(top_ids)
         IN IF id \notin tracked
            THEN InsertLoop_NoCap(tracked \cup {id}, Append(new_ids, id),
                                  remaining - 1, Tail(top_ids))
            ELSE InsertLoop_NoCap(tracked, new_ids, remaining, Tail(top_ids))

RECURSIVE InsertLoop_ReportsAll(_, _, _, _)
\* Faulty variant of InsertLoop: an id that was tracked already is put in
\* new_ids as well
InsertLoop_ReportsAll(tracked, new_ids, remaining, top_ids) ==
    IF top_ids = <<>> \/ remaining <= 0 THEN <<tracked, new_ids>>
    ELSE LET id == Head(top_ids)
         IN InsertLoop_ReportsAll(tracked \cup {id}, Append(new_ids, id),
                                  IF id \notin tracked THEN remaining - 1 ELSE remaining,
                                  Tail(top_ids))

RECURSIVE InsertLoop(_, _, _, _)
\* The loop over top_ids: stop when remaining <= 0, insert, count down on
\* a new id.  Gives <<tracked_ids_, new_ids>>
InsertLoop(tracked, new_ids, remaining, top_ids) ==
    IF top_ids = <<>> \/ remaining <= 0 THEN <<tracked, new_ids>>
    ELSE LET id == Head(top_ids)
         IN IF id \notin tracked
            THEN InsertLoop(tracked \cup {id}, Append(new_ids, id),
                            remaining - 1, Tail(top_ids))
            ELSE InsertLoop(tracked, new_ids, remaining, Tail(top_ids))

\* A thread calls poll()
Poll_call(t) ==
    /\ poller[t].pc = "idle"
    /\ polls < MaxPolls
    /\ polls' = polls + 1
    /\ poller' = [poller EXCEPT ![t] = [IdlePoller EXCEPT !.pc = "at_capacity",
                                                          !.full_at_call = at_capacity,
                                                          !.tracked_at_call = tracked_ids_]]
    /\ UNCHANGED <<outsideDiscovery, reported, tracked_ids_, max_tracked_markets, discovery_mutex_>>

\* if (at_capacity()) return 0; the lock_guard is taken and released
\* within the call
Poll_at_capacity(t) ==
    /\ poller[t].pc = "at_capacity"
    /\ discovery_mutex_ = 0
    /\ poller' = [poller EXCEPT ![t].pc = IF at_capacity THEN "done" ELSE "fetch",
                                ![t].tracked_at_return = tracked_ids_]
    /\ UNCHANGED <<outsideDiscovery, reported, tracked_ids_, max_tracked_markets,
                   discovery_mutex_, polls>>

\* fetch_top_token_ids(): the request runs without the mutex
Poll_fetch(t) ==
    /\ poller[t].pc = "fetch"
    /\ \E top_ids \in FetchResults :
            poller' = [poller EXCEPT ![t].pc = "lock", ![t].top_ids = top_ids]
    /\ UNCHANGED <<outsideDiscovery, reported, tracked_ids_, max_tracked_markets,
                   discovery_mutex_, polls>>

\* std::lock_guard lock(mutex_) of the insert block
Poll_lock(t) ==
    /\ poller[t].pc = "lock"
    /\ discovery_mutex_ = 0
    /\ discovery_mutex_' = t
    /\ poller' = [poller EXCEPT ![t].pc = "insert"]
    /\ UNCHANGED <<outsideDiscovery, reported, tracked_ids_, max_tracked_markets, polls>>

\* remaining = max_tracked_markets - size, then the loop
Poll_insert(t) ==
    /\ poller[t].pc = "insert"
    /\ discovery_mutex_ = t
    /\ LET remaining == max_tracked_markets - Cardinality(tracked_ids_)
           result == InsertLoop(tracked_ids_, <<>>, remaining, poller[t].top_ids)
       IN /\ tracked_ids_' = result[1]
          /\ poller' = [u \in Pollers |->
                IF u = t
                THEN [poller[t] EXCEPT !.pc = "unlock", !.new_ids = result[2]]
                ELSE IF poller[u].pc \in {"idle", "done"} THEN poller[u]
                ELSE [poller[u] EXCEPT !.added_by_others =
                                            @ \cup (result[1] \ tracked_ids_)]]
    /\ UNCHANGED <<outsideDiscovery, reported, max_tracked_markets, discovery_mutex_, polls>>

\* End of the block: the lock_guard is destroyed
Poll_unlock(t) ==
    /\ poller[t].pc = "unlock"
    /\ discovery_mutex_ = t
    /\ discovery_mutex_' = 0
    /\ poller' = [poller EXCEPT ![t].pc = "notify"]
    /\ UNCHANGED <<outsideDiscovery, reported, tracked_ids_, max_tracked_markets, polls>>

\* persist() and on_new(new_ids) if new_ids is not empty; return its size
Poll_notify(t) ==
    /\ poller[t].pc = "notify"
    /\ poller' = [poller EXCEPT ![t].pc = "done",
                                ![t].called_back = (poller[t].new_ids # <<>>),
                                ![t].returned = Len(poller[t].new_ids),
                                ![t].tracked_at_return = tracked_ids_]
    /\ reported' = [id \in TokenIds |->
                        reported[id] + Cardinality({k \in 1..Len(poller[t].new_ids) :
                                                        poller[t].new_ids[k] = id})]
    /\ UNCHANGED <<outsideDiscovery, tracked_ids_, max_tracked_markets, discovery_mutex_,
                   polls>>

\* The caller has the result and may poll again
Poll_return(t) ==
    /\ poller[t].pc = "done"
    /\ poller' = [poller EXCEPT ![t] = IdlePoller]
    /\ UNCHANGED <<outsideDiscovery, reported, tracked_ids_, max_tracked_markets,
                   discovery_mutex_, polls>>

NextDiscovery ==
    \E t \in Pollers :
        \/ Poll_call(t) \/ Poll_at_capacity(t) \/ Poll_fetch(t) \/ Poll_lock(t)
        \/ Poll_insert(t) \/ Poll_unlock(t) \/ Poll_notify(t) \/ Poll_return(t)

SpecDiscovery == InitDiscovery /\ [][NextDiscovery]_vars

\* The feed delivers an event for one of two assets
OnLiveEvent ==
    /\ Len(appended) < MaxEvents
    /\ \E event \in DriverEvents : on_event(event)
    /\ UNCHANGED driverVars

NextLive == OnLiveEvent

\* The websocket thread delivers every message it receives
SpecLive == InitLive /\ [][NextLive]_vars /\ WF_vars(OnLiveEvent)

\* ------------------------------------------------------------------------
\* PolymarketClient: subscribe on the caller's thread, Open and Close on
\* the websocket thread
\* ------------------------------------------------------------------------
\* What the client's subscription code never touches
outsideClient == <<serviceVars, memoryEventVars, memorySnapshotVars, parquetEventVars,
                   parquetSnapshotVars, write_buffer_size, historyVars, lockVars,
                   driverVars, discoveryVars>>

\* Token ids in the order the caller subscribes them
SubscribeOrder == <<"a", "b", "c">>

RECURSIVE Prefixes(_)
\* All prefixes of a list
Prefixes(list) ==
    IF list = <<>> THEN {<<>>}
    ELSE {list} \cup Prefixes(SubSeq(list, 1, Len(list) - 1))

\* What a read of a list of strings can see while push_back relocates the
\* elements into a larger buffer: each string either intact or already
\* moved from (empty)
Relocating(list) ==
    {[k \in 1..Len(list) |-> IF k \in moved THEN "" ELSE list[k]] :
        moved \in SUBSET (1..Len(list))}

\* What the websocket thread reads from token_ids_.  The vector has no
\* lock: a read that overlaps push_back is a data race, and may see the
\* vector before or after the push, only its first elements, or elements
\* whose strings have been moved to the new buffer
ReadTokenIds ==
    IF caller.pc = "push_back"
    THEN UNION {Relocating(list) : list \in Prefixes(Append(token_ids_, caller.token_id))}
    ELSE {token_ids_}

\* send_subscribe(): one message that lists the ids read.  The message
\* records the connection it went to and which ids had been pushed
Message(ids, on_open) ==
    [opens |-> opens, ids |-> ids, on_open |-> on_open,
     subscribed |-> {token_ids_[k] : k \in 1..Len(token_ids_)}]

\* subscribe(token_id) is called: push_back begins
Subscribe_call ==
    /\ caller.pc = "idle"
    /\ Len(token_ids_) < MaxSubscribes
    /\ caller' = [pc |-> "push_back", token_id |-> SubscribeOrder[Len(token_ids_) + 1]]
    /\ UNCHANGED <<outsideClient, token_ids_, connected_, socket, opens, sent>>

\* token_ids_.push_back(token_id) is complete
Subscribe_push_back ==
    /\ caller.pc = "push_back"
    /\ token_ids_' = Append(token_ids_, caller.token_id)
    /\ caller' = [caller EXCEPT !.pc = "connected"]
    /\ UNCHANGED <<outsideClient, connected_, socket, opens, sent>>

\* if (connected_)
Subscribe_connected ==
    /\ caller.pc = "connected"
    /\ caller' = [caller EXCEPT !.pc = IF connected_ THEN "send_subscribe" ELSE "idle"]
    /\ UNCHANGED <<outsideClient, token_ids_, connected_, socket, opens, sent>>

\* send_subscribe() on the caller's thread, which wrote the vector itself
Subscribe_send_subscribe ==
    /\ caller.pc = "send_subscribe"
    /\ sent' = Append(sent, Message(token_ids_, FALSE))
    /\ caller' = [caller EXCEPT !.pc = "idle"]
    /\ UNCHANGED <<outsideClient, token_ids_, connected_, socket, opens>>

\* Open: connected_ = true
Socket_open ==
    /\ socket = "idle"
    /\ ~connected_
    /\ opens < MaxOpens
    /\ connected_' = TRUE
    /\ opens' = opens + 1
    /\ socket' = "opened"
    /\ UNCHANGED <<outsideClient, token_ids_, caller, sent>>

\* Open: if (!token_ids_.empty()) send_subscribe()
Socket_open_send_subscribe ==
    /\ socket = "opened"
    /\ \E ids \in ReadTokenIds :
            sent' = IF ids = <<>> THEN sent ELSE Append(sent, Message(ids, TRUE))
    /\ socket' = "idle"
    /\ UNCHANGED <<outsideClient, token_ids_, connected_, caller, opens>>

\* Close: connected_ = false
Socket_close ==
    /\ socket = "idle"
    /\ connected_
    /\ connected_' = FALSE
    /\ UNCHANGED <<outsideClient, token_ids_, caller, socket, opens, sent>>

NextClient ==
    \/ Subscribe_call \/ Subscribe_push_back \/ Subscribe_connected
    \/ Subscribe_send_subscribe
    \/ Socket_open \/ Socket_open_send_subscribe \/ Socket_close

SpecClient == InitBook /\ [][NextClient]_vars

NextDisplay ==
    \/ Main_start \/ Feed_enter_on_event \/ Feed_on_event
    \/ Main_query_begin \/ Main_query_end \/ Main_stop

SpecDisplay == InitBook /\ [][NextDisplay]_vars

NextRestart == OnEvent \/ Tick \/ RestartService

SpecRestart == Init /\ [][NextRestart]_vars

\* ------------------------------------------------------------------------
\* Properties
\* ------------------------------------------------------------------------
EventsOf(asset) == SelectSeq(appended, LAMBDA e : e.asset = asset)

\* The events of an asset with sequence numbers up to k, in ascending
\* sequence order
EventsOfUpTo(asset, k) ==
    SortBySeq(SelectSeq(appended, LAMBDA e : e.asset = asset /\ e.sequence_number <= k))

\* C1: the k-th event delivered to on_event is persisted with sequence
\* number k: the persisted sequence numbers are 1..n in delivery order, from
\* one counter shared by all assets.
C1_SequenceEqualsPosition ==
    /\ \A k \in 1..Len(appended) : appended[k].sequence_number = k
    /\ event_count = Len(appended)
    /\ repository_ = "memory" => events_ = appended

C1_Witness ==
    /\ Len(appended) >= 3
    /\ appended[1].asset # appended[2].asset
    /\ appended[3].asset = appended[1].asset

\* C2: the projection of an asset is the fold of apply, from empty(asset),
\* over exactly that asset's events in ascending sequence order; an asset
\* without events has no projection.
C2_ProjectionIsFold ==
    \A a \in ServiceAssets :
        get_current_book(a) =
            IF EventsOf(a) = <<>> THEN <<>>
            ELSE <<FoldApply(empty(a), EventsOfUpTo(a, Len(appended)))>>

C2_Witness ==
    /\ \A a \in ServiceAssets : a \in DOMAIN current_books_
    /\ \E a \in ServiceAssets :
          /\ Len(EventsOf(a)) >= 2
          /\ current_books_[a].bids # <<>>
          /\ current_books_[a].latest_trade # <<>>

\* C3: store_snapshot is called for exactly the events whose assigned
\* sequence number is a multiple of a positive snapshot_interval, with the
\* projection of that event's asset as it is after the event.
C3_SnapshotExactlyAtInterval ==
    LET due == {k \in 1..Len(appended) :
                    snapshot_interval_ > 0 /\ k % snapshot_interval_ = 0}
    IN /\ Len(snapshot_calls) = Cardinality(due)
       /\ \A i \in 1..Len(snapshot_calls) :
            LET k == i * snapshot_interval_
                a == appended[k].asset
            IN /\ snapshot_calls[i].asset = a
               /\ snapshot_calls[i].last_sequence_number = k
               /\ snapshot_calls[i] = FoldApply(empty(a), EventsOfUpTo(a, k))

C3_Witness ==
    /\ snapshot_interval_ = 2
    /\ Len(appended) = 3
    /\ Len(snapshot_calls) = 1
    /\ appended[1].asset = appended[2].asset
    /\ appended[3].asset # appended[2].asset

\* C4: with snapshot_interval = 0 no snapshot is ever stored.
C4_NoSnapshotWhenIntervalZero ==
    snapshot_interval_ = 0 =>
        /\ snapshot_calls = <<>>
        /\ snapshots_ = EmptyMap
        /\ snapshot_files = EmptyMap

C4_Witness == snapshot_interval_ = 0 /\ Len(appended) >= 3

\* The documented rebuild: latest snapshot (or the empty book), then the
\* events after it
Reconstruct(asset) ==
    LET snap == get_latest_snapshot(asset)
        base == IF snap = <<>> THEN empty(asset) ELSE snap[1]
    IN FoldApply(base, get_events_since(asset, base.last_sequence_number))

\* C5: for every ingested asset, the latest snapshot (or the empty book)
\* with the events since it applied equals the current projection, for both
\* repositories.
C5_RebuildEqualsProjection ==
    \A a \in DOMAIN current_books_ : Reconstruct(a) = current_books_[a]

\* C6: a service constructed over a repository that already holds events
\* and snapshots has, for every previously ingested asset, the book the
\* previous instance held.
C6_RestartRestoresProjection ==
    (restarts > 0 /\ next_sequence_number_ = 1) =>
        \A a \in DOMAIN prev_books :
            a \in DOMAIN current_books_ /\ current_books_[a] = prev_books[a]

\* C7: get_events_since(a, 0) on the columnar repository returns exactly
\* the events appended for a, in ascending sequence order, wherever the
\* flushes fell and whichever partition a buffer was written to.
C7_ReadReturnsAllAppended ==
    \A a \in RepoAssets : Parquet_get_events_since(a, 0) = EventsOf(a)

\* C8: get_events_since(a, s) never returns an event of another asset.
C8_OnlyRequestedAsset ==
    \A a \in RepoAssets : \A s \in 0..Len(appended) :
        LET r == Parquet_get_events_since(a, s)
        IN \A i \in 1..Len(r) : r[i].asset = a

\* A file holding events of two assets that live in the same directory,
\* read for one of them
C8_Witness ==
    \E p \in DOMAIN event_files :
        \E i, j \in 1..Len(event_files[p]) :
            LET ri == event_files[p][i]
                rj == event_files[p][j]
            IN /\ token_prefix(ri.token_id) = token_prefix(rj.token_id)
               /\ MarketAsset(ri.condition_id, ri.token_id)
                    # MarketAsset(rj.condition_id, rj.token_id)
               /\ Len(Parquet_get_events_since(
                        MarketAsset(ri.condition_id, ri.token_id), 0)) = 1

\* C9: every event returned by get_events_since(a, s) has a sequence number
\* above s, and the list is in ascending sequence order.
C9_AboveAndAscending ==
    \A a \in RepoAssets : \A s \in 0..Len(appended) :
        LET r == Parquet_get_events_since(a, s)
        IN /\ \A i \in 1..Len(r) : r[i].sequence_number > s
           /\ \A i, j \in 1..Len(r) :
                i < j => r[i].sequence_number <= r[j].sequence_number

\* Two events of one asset, of different kinds, the older one read from a
\* file and the newer one from a buffer; a read above the older one returns
\* only the newer one
C9_Witness ==
    \E a \in RepoAssets :
        LET r == Parquet_get_events_since(a, 0)
        IN /\ Len(r) = 2
           /\ r[1].kind # r[2].kind
           /\ event_files # EmptyMap
           /\ BufferedEvents = <<r[2]>>
           /\ Parquet_get_events_since(a, r[1].sequence_number) = <<r[2]>>

\* C10: the matching buffered events are returned together with the
\* events read from files, and no event is returned twice.
C10_BufferedWithFlushedOnce ==
    \A a \in RepoAssets : \A s \in 0..Len(appended) :
        LET r == Parquet_get_events_since(a, s)
            onDisk == Parquet_read(event_files, <<<<>>, <<>>, <<>>, <<>>>>, a, s)
            inBuffers == merge_buffer(BufferedEvents, a, s)
        IN /\ \A i \in 1..Len(inBuffers) : \E j \in 1..Len(r) : r[j] = inBuffers[i]
           /\ \A i \in 1..Len(onDisk) : \E j \in 1..Len(r) : r[j] = onDisk[i]
           /\ \A i, j \in 1..Len(r) : i # j => r[i] # r[j]

C10_Witness ==
    \E a \in RepoAssets :
        LET r == Parquet_get_events_since(a, 0)
        IN /\ Len(r) >= 2
           /\ Len(merge_buffer(BufferedEvents, a, 0)) >= 1
           /\ Len(Parquet_read(event_files, <<<<>>, <<>>, <<>>, <<>>>>, a, 0)) >= 1

\* The files below the four directories get_events_since lists for an asset
ListedFiles(asset) ==
    {p \in DOMAIN event_files : p.token_prefix = token_prefix(asset.token_id)}

\* A read that opens every listed file and keeps the rows of the asset with
\* a sequence number above s, together with the matching buffered events
ReadWithoutSkip(asset, s) ==
    UNION {{EventFromRow(p.event_type, event_files[p][i]) :
                i \in {j \in 1..Len(event_files[p]) :
                            RowMatches(event_files[p][j], asset, s)}} :
            p \in ListedFiles(asset)}
    \cup {BufferedEvents[i] : i \in {j \in 1..Len(BufferedEvents) :
                        /\ BufferedEvents[j].asset = asset
                        /\ BufferedEvents[j].sequence_number > s}}

\* C11: with events appended in increasing sequence order, skipping the
\* files whose name says seq_end <= s does not change the answer:
\* get_events_since(a, s) returns the same events as a read that opens
\* every file of the asset's directories and filters the rows.
C11_SkipScanEquivalent ==
    \A a \in RepoAssets : \A s \in 0..Len(appended) :
        LET r == Parquet_get_events_since(a, s)
        IN /\ {r[i] : i \in 1..Len(r)} = ReadWithoutSkip(a, s)
           /\ Len(r) = Cardinality(ReadWithoutSkip(a, s))

\* A read that skips one file by its name, opens another and returns an
\* event
C11_Witness ==
    \E a \in RepoAssets : \E s \in 1..Len(appended) :
        /\ \E p \in ListedFiles(a) : SkipFile(p, s)
        /\ \E p \in ListedFiles(a) : ~SkipFile(p, s)
        /\ Parquet_get_events_since(a, s) # <<>>

\* C12: after every append_event the four buffers hold, in total, fewer
\* events than write_buffer_size (>= 1): an append that reaches the
\* threshold writes and clears all the buffers in the same call.
C12_BuffersBelowThreshold ==
    /\ write_buffer_size >= 1
    /\ Len(BufferedEvents) < write_buffer_size
    /\ BufferedEvents = <<>> => (min_seq_in_buffer_ = 0 /\ max_seq_in_buffer_ = 0)

\* The second append reached a threshold of 2 and both events, of
\* different kinds, were written
C12_Witness ==
    /\ write_buffer_size = 2
    /\ Len(appended) = 2
    /\ appended[1].kind # appended[2].kind
    /\ BufferedEvents = <<>>
    /\ Cardinality(DOMAIN event_files) = 2

\* C13: when a columnar repository is destroyed, the events it still
\* buffers are written, and a new repository over the same filesystem
\* returns each of them from get_events_since(a, 0) for its asset a.
C13_DestructorFlushReadable ==
    [][ReopenRepository =>
          \A a \in RepoAssets :
              LET buffered == merge_buffer(BufferedEvents, a, 0)
              IN \A i \in 1..Len(buffered) :
                    \E j \in 1..Len(Parquet_get_events_since(a, 0)') :
                        Parquet_get_events_since(a, 0)'[j] = buffered[i]]_vars

\* The book of the most recent store_snapshot call for an asset, if any
LastStored(asset) ==
    LET calls == {i \in 1..Len(snapshot_calls) : snapshot_calls[i].asset = asset}
    IN IF calls = {} THEN <<>>
       ELSE <<snapshot_calls[CHOOSE i \in calls : \A j \in calls : j <= i]>>

\* C14: after any store_snapshot calls, get_latest_snapshot(a) returns
\* none only if nothing was stored for a, and otherwise the book stored
\* last for a (compared on asset, sides, tick size, hash and sequence
\* number); a snapshot stored for another asset never removes it.  Both
\* repositories.
C14_LatestSnapshotPerAsset ==
    \A a \in SnapshotAssets :
        LET got == get_latest_snapshot(a)
            want == LastStored(a)
        IN /\ (got = <<>>) <=> (want = <<>>)
           /\ got # <<>> /\ want # <<>> =>
                /\ got[1].asset = a
                /\ got[1].bids = want[1].bids
                /\ got[1].asks = want[1].asks
                /\ got[1].tick_size = want[1].tick_size
                /\ got[1].book_hash = want[1].book_hash
                /\ got[1].last_sequence_number = want[1].last_sequence_number

\* Equality of two optional trades on the fields a trade carries
SameTrade(t1, t2) ==
    /\ Len(t1) = Len(t2)
    /\ t1 # <<>> =>
        /\ t1[1].price = t2[1].price
        /\ t1[1].size = t2[1].size
        /\ t1[1].side = t2[1].side
        /\ t1[1].fee_rate_bps = t2[1].fee_rate_bps
        /\ t1[1].timestamp = t2[1].timestamp

\* C15: on the columnar repository, get_latest_snapshot(b.asset) right
\* after store_snapshot(b) returns a book equal to b on sides, latest
\* trade, tick size, hash, timestamp and last sequence number, for every
\* book b reached from the empty book.
C15_SnapshotRoundTrip ==
    (repository_ = "parquet" /\ snapshot_calls # <<>>) =>
        LET b == snapshot_calls[Len(snapshot_calls)]
            got == Parquet_get_latest_snapshot(b.asset)
        IN /\ got # <<>>
           /\ got[1].bids = b.bids
           /\ got[1].asks = b.asks
           /\ SameTrade(got[1].latest_trade, b.latest_trade)
           /\ got[1].tick_size = b.tick_size
           /\ got[1].book_hash = b.book_hash
           /\ got[1].timestamp = b.timestamp
           /\ got[1].last_sequence_number = b.last_sequence_number

\* C16: after any events applied from the empty book, snapshots with
\* unsorted or repeated prices included, bids are strictly descending and
\* asks strictly ascending in price.
C16_SidesStrictlySorted ==
    \A a \in DOMAIN current_books_ :
        LET book == current_books_[a]
        IN /\ \A i, j \in 1..Len(book.bids) :
                i < j => book.bids[i].price > book.bids[j].price
           /\ \A i, j \in 1..Len(book.asks) :
                i < j => book.asks[i].price < book.asks[j].price

\* C17: after any events applied from the empty book, snapshots carrying
\* levels of size 0 included, no stored level has size 0.
C17_NoZeroSizeLevel ==
    \A a \in DOMAIN current_books_ :
        LET book == current_books_[a]
        IN /\ \A i \in 1..Len(book.bids) : book.bids[i].size # 0
           /\ \A i \in 1..Len(book.asks) : book.asks[i].size # 0

\* C18: in the projection, an asset's last_sequence_number is the sequence
\* number given to the latest event ingested for that asset; every event
\* applied to the asset strictly increases it, and it never decreases.
C18_LastSequenceTracksEvents ==
    /\ [](\A a \in DOMAIN current_books_ :
            /\ EventsOf(a) # <<>>
            /\ current_books_[a].last_sequence_number =
                    EventsOf(a)[Len(EventsOf(a))].sequence_number)
    /\ [][\A a \in DOMAIN current_books_' :
            LET before == IF a \in DOMAIN current_books_
                          THEN current_books_[a].last_sequence_number ELSE 0
                after == current_books_'[a].last_sequence_number
            IN /\ before <= after
               /\ EventsOf(a)' # EventsOf(a) => before < after]_vars

\* Two assets ingested in turn: each book carries the global sequence
\* number of its own latest event
C18_Witness ==
    /\ Len(appended) = 3
    /\ appended[1].asset = appended[3].asset
    /\ appended[2].asset # appended[3].asset
    /\ current_books_[appended[3].asset].last_sequence_number = 3
    /\ current_books_[appended[2].asset].last_sequence_number = 2

\* C19: get_current_book(a) succeeds exactly for the assets that had at
\* least one event ingested; an entry, once created, is never removed, so
\* book_count() is the number of distinct assets ingested and never
\* decreases.
C19_BooksExactlyForIngestedAssets ==
    /\ [](/\ \A a \in RepoAssets :
                (get_current_book(a) # <<>>) <=> (EventsOf(a) # <<>>)
          /\ book_count = Cardinality({appended[i].asset : i \in 1..Len(appended)}))
    /\ [][/\ DOMAIN current_books_ \subseteq DOMAIN current_books_'
          /\ book_count <= book_count']_vars

\* Several events for one asset while the other was never seen: one
\* lookup succeeds, the other fails
C19_Witness ==
    /\ Len(appended) >= 2
    /\ book_count = 1
    /\ \E a \in ServiceAssets : get_current_book(a) = <<>>

\* C20: when append_event throws during on_event, the call ends with that
\* exception and leaves the projection map (no entry created or updated)
\* and the stored snapshots as they were before the call.
C20_AppendFailureLeavesProjection ==
    [][failed' # failed =>
          /\ current_books_' = current_books_
          /\ snapshots_' = snapshots_
          /\ snapshot_files' = snapshot_files
          /\ snapshot_calls' = snapshot_calls]_vars

\* A failed append for an asset never seen before, on a service that
\* already holds a projection and a stored snapshot for another asset
C20_Witness ==
    /\ failed # <<>>
    /\ failed[1].asset \notin DOMAIN current_books_
    /\ current_books_ # EmptyMap
    /\ snapshot_calls # <<>>

\* The events that can be read back from the files, whatever the
\* directory they were written to
DurableEvents ==
    UNION {{EventFromRow(p.event_type, event_files[p][i]) :
                i \in 1..Len(event_files[p])} : p \in DOMAIN event_files}

\* C21: when a file write fails during a flush, append_event reports the
\* failure to its caller, and no appended event is dropped: each one is
\* still buffered or can be read from a file.
C21_WriteFailureSurfaced ==
    /\ write_errors > 0 => failed # <<>>
    /\ \A i \in 1..Len(appended) :
          \/ appended[i] \in DurableEvents
          \/ \E j \in 1..Len(BufferedEvents) : BufferedEvents[j] = appended[i]

C23_FeedStopsBeforeFinalFlush ==
    /\ [](driver = "repo_destroyed" =>
            /\ BufferedEvents = <<>>
            /\ Len(appended) = next_sequence_number_ - 1
            /\ \A i \in 1..Len(appended) : appended[i] \in DurableEvents)
    /\ [][driver = "repo_destroyed" =>
            /\ appended' = appended
            /\ next_sequence_number_' = next_sequence_number_]_vars

\* The driver has shut down after the feed delivered at least two events,
\* fewer than the size threshold
C23_Witness ==
    /\ driver = "repo_destroyed"
    /\ Len(appended) >= 2
    /\ write_buffer_size > Len(appended)
    /\ event_files # EmptyMap

\* The step is an on_event call
Ingests == Len(appended') = Len(appended) + 1

\* The numbered event of the step
Ingested == appended'[Len(appended')]

\* The book the event of the step was applied to
BookBefore ==
    IF Ingested.asset \in DOMAIN current_books_
    THEN current_books_[Ingested.asset] ELSE empty(Ingested.asset)

\* The projection of the event's asset after the step
BookAfter == current_books_'[Ingested.asset]

OtherPrices(levels, price) == SelectSeq(levels, LAMBDA l : l.price # price)

AtPrice(levels, price) == SelectSeq(levels, LAMBDA l : l.price = price)

SideSorted(levels, descending) ==
    \A i \in 1..(Len(levels) - 1) : ~Comp(descending, levels[i + 1].price, levels[i].price)

\* What one change does to its side; where a side holds a price more than
\* once, the level of the change is the first one at that price
ChangeEffect(before, after, price, new_size, descending) ==
    /\ OtherPrices(after, price) = OtherPrices(before, price)
    /\ IF new_size = 0
       THEN /\ AtPrice(before, price) = <<>> => after = before
            /\ AtPrice(before, price) # <<>> =>
                    /\ Len(after) = Len(before) - 1
                    /\ AtPrice(after, price) = Tail(AtPrice(before, price))
       ELSE /\ AtPrice(before, price) # <<>> =>
                    /\ Len(after) = Len(before)
                    /\ \A i \in 1..Len(before) :
                          after[i].price = before[i].price
                    /\ AtPrice(after, price) =
                          <<PriceLevel(price, new_size)>> \o Tail(AtPrice(before, price))
            /\ AtPrice(before, price) = <<>> =>
                    /\ Len(after) = Len(before) + 1
                    /\ AtPrice(after, price) = <<PriceLevel(price, new_size)>>
                    /\ SideSorted(before, descending) => SideSorted(after, descending)

\* The sides after the first k changes of the event of the step
SidesAfter(k) ==
    ApplyChanges(<<BookBefore.bids, BookBefore.asks>>, SubSeq(Ingested.changes, 1, k), 1)

\* C24: a BookDelta takes its changes in order; each one acts on the bids
\* if its side is BUY and on the asks otherwise: size 0 erases the level at
\* the price if there is one and does nothing otherwise, another size
\* replaces the size of the level at the price or, if there is none,
\* inserts a level where the side stays sorted; the other side and the
\* levels at other prices stay as they were.
C24_DeltaPatchesLevels ==
    [][Ingests /\ Ingested.kind = "BookDelta" =>
        /\ <<BookAfter.bids, BookAfter.asks>> = SidesAfter(Len(Ingested.changes))
        /\ \A k \in 1..Len(Ingested.changes) :
              LET change == Ingested.changes[k]
                  before == SidesAfter(k - 1)
                  after == SidesAfter(k)
              IN IF change.side = BUY
                 THEN /\ ChangeEffect(before[1], after[1], change.price,
                                      change.new_size, TRUE)
                      /\ after[2] = before[2]
                 ELSE /\ ChangeEffect(before[2], after[2], change.price,
                                      change.new_size, FALSE)
                      /\ after[1] = before[1]]_vars

\* A delta with two changes was applied, and a level inserted by a delta
\* lies between two levels of a snapshot
C24_Witness ==
    /\ \E i \in 1..Len(appended) :
          appended[i].kind = "BookDelta" /\ Len(appended[i].changes) = 2
    /\ Asset1 \in DOMAIN current_books_
    /\ current_books_[Asset1].asks =
          <<PriceLevel(520, 25), PriceLevel(525, 5), PriceLevel(530, 60)>>

\* The levels of a list as a bag
LevelBag(levels) ==
    [l \in {levels[i] : i \in 1..Len(levels)} |->
        Cardinality({i \in 1..Len(levels) : levels[i] = l})]

\* C25: a BookSnapshot replaces both sides by the levels of the snapshot,
\* bids in descending and asks in ascending price order, takes timestamp,
\* last_sequence_number and book_hash from the event, and keeps the
\* latest_trade and tick_size of the book it was applied to.
C25_SnapshotReplacesSides ==
    [][Ingests /\ Ingested.kind = "BookSnapshot" =>
        /\ LevelBag(BookAfter.bids) = LevelBag(Ingested.bids)
        /\ LevelBag(BookAfter.asks) = LevelBag(Ingested.asks)
        /\ SideSorted(BookAfter.bids, TRUE)
        /\ SideSorted(BookAfter.asks, FALSE)
        /\ BookAfter.timestamp = Ingested.timestamp
        /\ BookAfter.last_sequence_number = Ingested.sequence_number
        /\ BookAfter.book_hash = Ingested.hash
        /\ BookAfter.latest_trade = BookBefore.latest_trade
        /\ BookAfter.tick_size = BookBefore.tick_size]_vars

\* A snapshot was applied last to a book that had a trade and a changed
\* tick size
C25_Witness ==
    /\ appended # <<>>
    /\ appended[Len(appended)].kind = "BookSnapshot"
    /\ Asset1 \in DOMAIN current_books_
    /\ current_books_[Asset1].latest_trade # <<>>
    /\ current_books_[Asset1].tick_size # DefaultTickSize
    /\ current_books_[Asset1].bids # <<>>

\* C26: a TradeEvent and a TickSizeChange leave bids, asks and book_hash
\* as they were; the trade only sets latest_trade to the event, the tick
\* size change only sets tick_size to new_tick_size and keeps latest_trade;
\* both take timestamp and last_sequence_number from the event.
C26_TradeAndTickKeepSides ==
    [][Ingests /\ Ingested.kind \in {"TradeEvent", "TickSizeChange"} =>
        /\ BookAfter.bids = BookBefore.bids
        /\ BookAfter.asks = BookBefore.asks
        /\ BookAfter.book_hash = BookBefore.book_hash
        /\ BookAfter.asset = BookBefore.asset
        /\ BookAfter.timestamp = Ingested.timestamp
        /\ BookAfter.last_sequence_number = Ingested.sequence_number
        /\ Ingested.kind = "TradeEvent" =>
              /\ BookAfter.latest_trade = <<Ingested>>
              /\ BookAfter.tick_size = BookBefore.tick_size
        /\ Ingested.kind = "TickSizeChange" =>
              /\ BookAfter.tick_size = Ingested.new_tick_size
              /\ BookAfter.latest_trade = BookBefore.latest_trade]_vars

\* A tick size change was applied last to a book that had levels, a hash
\* and a trade
C26_Witness ==
    /\ Len(appended) >= 3
    /\ appended[Len(appended)].kind = "TickSizeChange"
    /\ appended[Len(appended) - 1].kind = "TradeEvent"
    /\ Asset1 \in DOMAIN current_books_
    /\ current_books_[Asset1].bids # <<>>
    /\ current_books_[Asset1].book_hash # ""
    /\ current_books_[Asset1].latest_trade # <<>>
    /\ current_books_[Asset1].tick_size # DefaultTickSize

\* C27: get_best_bid fails exactly when the book has no bids and otherwise
\* returns the greatest bid price in the book; get_best_ask fails exactly
\* when the book has no asks and otherwise returns the least ask price.
C27_BestPricesAreExtremes ==
    \A a \in DOMAIN current_books_ :
        LET book == current_books_[a]
            bid == get_best_bid(book)
            ask == get_best_ask(book)
        IN /\ bid.ok <=> book.bids # <<>>
           /\ ask.ok <=> book.asks # <<>>
           /\ bid.ok =>
                /\ \E i \in 1..Len(book.bids) : book.bids[i].price = bid.value
                /\ \A i \in 1..Len(book.bids) : book.bids[i].price <= bid.value
           /\ ask.ok =>
                /\ \E i \in 1..Len(book.asks) : book.asks[i].price = ask.value
                /\ \A i \in 1..Len(book.asks) : book.asks[i].price >= ask.value

\* A book with several bid and ask prices, changed by a delta after a
\* snapshot
C27_Witness ==
    /\ Asset1 \in DOMAIN current_books_
    /\ Len(current_books_[Asset1].bids) >= 3
    /\ Len(current_books_[Asset1].asks) >= 2
    /\ get_best_bid(current_books_[Asset1]).value = 500
    /\ get_best_ask(current_books_[Asset1]).value = 520

\* C28: an append_event made when 30 seconds or more have passed since
\* the last flush, or since construction, writes every buffered event and
\* the appended one to files whatever their number, leaves the buffers
\* empty, and restarts the clock, so that the time condition is false for
\* an append that follows at once.
C28_TimeFlushAndReset ==
    [][Ingests /\ elapsed >= FlushSeconds =>
        /\ BufferedEvents' = <<>>
        /\ \A i \in 1..Len(BufferedEvents) : BufferedEvents[i] \in DurableEvents'
        /\ Ingested \in DurableEvents'
        /\ elapsed' = 0
        /\ elapsed' < FlushSeconds]_vars

\* A flush has happened although fewer events than the threshold were
\* appended
C28_Witness ==
    /\ appended # <<>>
    /\ Len(appended) < write_buffer_size
    /\ event_files # EmptyMap
    /\ BufferedEvents = <<>>
    /\ elapsed = 0

\* C29: the main thread of a driver is never inside its queries of the
\* service (resolve_asset, get_current_book and the book it returns,
\* event_count, book_count) while the websocket thread is inside on_event.
C29_QueriesSynchronized ==
    ~(driver = "querying" /\ feed = "in_on_event")

\* C30: starting from an empty tracked set, whatever polls are made, also
\* at the same time, the tracked set never holds more than
\* max_tracked_markets token ids; a poll called when the set is at capacity
\* adds nothing, returns 0 and does not call the callback.
C30_TrackedWithinCapacity ==
    /\ Cardinality(tracked_ids_) <= max_tracked_markets
    /\ \A t \in Pollers :
          poller[t].full_at_call =>
              /\ poller[t].pc \in {"at_capacity", "done"}
              /\ poller[t].new_ids = <<>>
              /\ poller[t].returned = 0
              /\ ~poller[t].called_back

\* One thread was turned away at capacity; the other had passed the
\* capacity test before the set filled up and then found no room
C30_Witness ==
    /\ Cardinality(tracked_ids_) = max_tracked_markets
    /\ \E t, u \in Pollers :
          /\ poller[t].pc = "done" /\ poller[t].full_at_call
          /\ poller[u].pc = "done" /\ ~poller[u].full_at_call
          /\ poller[u].top_ids # <<>>
          /\ \E i \in 1..Len(poller[u].top_ids) : poller[u].top_ids[i] \notin tracked_ids_
          /\ poller[u].returned = 0

\* The ids of a list as a set
Ids(list) == {list[k] : k \in 1..Len(list)}

\* C31: a poll returns the number of token ids it has added: ids that were
\* not tracked when it was called and are tracked when it returns (any
\* other such id was added by a poll running at the same time); the
\* callback is called exactly when that number is not zero, with exactly
\* those ids, and no id is given to a callback twice.
C31_PollReportsOnlyNewIds ==
    /\ \A t \in Pollers :
          poller[t].pc = "done" =>
              LET p == poller[t]
                  gained == p.tracked_at_return \ p.tracked_at_call
              IN /\ p.returned = Cardinality(Ids(p.new_ids))
                 /\ p.returned = Len(p.new_ids)
                 /\ p.called_back <=> p.returned # 0
                 /\ Ids(p.new_ids) \cup p.added_by_others = gained
                 /\ Ids(p.new_ids) \cap p.added_by_others = {}
    /\ \A id \in TokenIds : reported[id] <= 1
    /\ \A id \in TokenIds : reported[id] = 1 => id \in tracked_ids_

\* A poll has returned 1 for a fetch result of two ids, one of which an
\* earlier poll had added and reported
C31_Witness ==
    \E t \in Pollers :
        /\ poller[t].pc = "done"
        /\ poller[t].returned = 1
        /\ Len(poller[t].top_ids) = 2
        /\ poller[t].tracked_at_call # {}
        /\ Ids(poller[t].top_ids) \cap poller[t].tracked_at_call # {}
        /\ poller[t].added_by_others = {}

\* C32: the events appended to one columnar storage location carry
\* pairwise distinct sequence numbers, also when they were ingested by
\* different service instances.
C32_SequenceUniqueAcrossRestarts ==
    repository_ = "parquet" =>
        \A i, j \in 1..Len(appended) :
            i # j => appended[i].sequence_number # appended[j].sequence_number

\* The kinds of the events in a list
Kinds(events) == {events[k].kind : k \in 1..Len(events)}

\* C33: in one repository lifetime with increasing sequence numbers, a
\* flush never writes to the path of a file written before: every file
\* stays as it was written, and a flush adds one new file for each buffer
\* that holds events.
C33_FlushPathsDistinct ==
    [][/\ \A path \in DOMAIN event_files :
              /\ path \in DOMAIN event_files'
              /\ event_files'[path] = event_files[path]
       /\ (Ingests /\ event_files' # event_files) =>
              Cardinality(DOMAIN event_files') =
                  Cardinality(DOMAIN event_files)
                      + Cardinality(Kinds(BufferedEvents) \cup {Ingested.kind})]_vars

\* Two files of one type, token prefix, date and hour, written by two flushes
C33_Witness ==
    \E p, q \in DOMAIN event_files :
        /\ p # q
        /\ p.event_type = q.event_type
        /\ p.token_prefix = q.token_prefix
        /\ p.date = q.date
        /\ p.hour = q.hour

\* C34: event_count() is the number of events the repository accepted,
\* and the accepted events carry the sequence numbers 1..event_count(),
\* also after on_event calls in which append_event threw.
C34_EventCountIsAcceptedCount ==
    /\ event_count = Len(appended)
    /\ \A i \in 1..Len(appended) : appended[i].sequence_number = i

\* What C35 says of one snapshot book
SnapshotInStep(book) ==
    LET a == book.asset
        k == book.last_sequence_number
    IN /\ snapshot_interval_ > 0
       /\ k > 0
       /\ k % snapshot_interval_ = 0
       /\ a \in DOMAIN current_books_
       /\ k <= current_books_[a].last_sequence_number
       /\ book = FoldApply(empty(a), EventsOfUpTo(a, k))

\* C35: every snapshot the service has stored for an asset has a
\* last_sequence_number that is a positive multiple of snapshot_interval
\* and not above that of the asset's projection, and is the book obtained
\* by folding the asset's events with sequence numbers up to that value.
C35_SnapshotsAreFoldsAtMultiples ==
    /\ \A i \in 1..Len(snapshot_calls) : SnapshotInStep(snapshot_calls[i])
    /\ \A a \in DOMAIN snapshots_ : snapshots_[a].asset = a /\ SnapshotInStep(snapshots_[a])

\* An asset whose stored snapshot is older than its projection, while a
\* snapshot of another asset is stored as well
C35_Witness ==
    /\ snapshot_interval_ = 1
    /\ Len(snapshot_calls) = 3
    /\ \E a \in DOMAIN current_books_ :
          /\ snapshot_calls[1].asset = a
          /\ snapshot_calls[2].asset # a
          /\ snapshot_calls[3].asset = a
          /\ snapshot_calls[1].last_sequence_number < current_books_[a].last_sequence_number

\* Number of events ingested for an asset
Received(asset) == Len(SelectSeq(appended, LAMBDA e : e.asset = asset))

\* A snapshot of the asset was handed to store_snapshot
Stored(asset) == \E i \in 1..Len(snapshot_calls) : snapshot_calls[i].asset = asset

C37_SnapshotsBehindDurableEvents ==
    repository_ = "parquet" =>
        \A path \in DOMAIN snapshot_files :
            \A i \in 1..Len(appended) :
                appended[i].sequence_number <= snapshot_files[path].sequence_number =>
                    appended[i] \in DurableEvents

\* C38: no subscription is lost whatever the interleaving of subscribe with
\* Open and Close: the message sent on an Open lists every token id
\* subscribed before, and once subscribe has returned on an open
\* connection, each subscribed id is in a message sent on that connection.
C38_NoSubscriptionLost ==
    /\ \A k \in 1..Len(sent) :
          sent[k].on_open => sent[k].subscribed \subseteq Ids(sent[k].ids)
    /\ (caller.pc = "idle" /\ socket = "idle" /\ connected_) =>
          \A id \in Ids(token_ids_) :
              \E k \in 1..Len(sent) : sent[k].opens = opens /\ id \in Ids(sent[k].ids)

====
